---- MODULE Spec2Model ----
(***************************************************************************)
(* A model of the JSONPath template engine of util/jsonpath: the query     *)
(* executor (findResults and the selector functions), the filter           *)
(* expression evaluator with its comparison matrix, and the template       *)
(* executor.                                                               *)
(*                                                                         *)
(* Data nodes are records [k |-> kind, v |-> payload]:                     *)
(*   null | bool | int | uint | float | string | array | map | struct      *)
(* Containers hold interface-typed children, as encoding/json produces     *)
(* them.  An array's payload is the sequence of its elements; a map's or   *)
(* struct's payload is the sequence of its [key, val] entries in the order *)
(* in which the walk enumerates them (for a Go map that order is           *)
(* arbitrary, so the inputs hold every order).  A float's payload counts   *)
(* halves (v = 3 is 1.5), so all arithmetic stays in the integers.         *)
(*                                                                         *)
(* A reference [p |-> path, n |-> node] stands for a reflect.Value that    *)
(* points into the input: p is the sequence of child positions leading     *)
(* from the data root to the node.                                         *)
(***************************************************************************)
EXTENDS Integers, Sequences, FiniteSets, TLC

VARIABLES input, allowMissingKeys, call, result, jParser, executions, lastParse

vars == <<input, allowMissingKeys, call, result, jParser, executions, lastParse>>

\* the JSONPath object's parser field j.parser, the Execute calls made on the object
\* and what the most recent Parse call returned
object == <<jParser, executions, lastParse>>

(***************************************************************************)
(* Data nodes                                                              *)
(***************************************************************************)
Null == [k |-> "null", v |-> 0]
BoolV(b) == [k |-> "bool", v |-> b]
IntV(i) == [k |-> "int", v |-> i]
UintV(u) == [k |-> "uint", v |-> u]
FloatV(h) == [k |-> "float", v |-> h]
StrV(s) == [k |-> "string", v |-> s]
ArrV(elems) == [k |-> "array", v |-> elems]
MapV(entries) == [k |-> "map", v |-> entries]
StructV(entries) == [k |-> "struct", v |-> entries]
Entry(key, val) == [key |-> key, val |-> val]

Ref(path, node) == [p |-> path, n |-> node]

\* indirect: a nil pointer or interface is the JSON null leaf
indirectIsNil(node) == node.k = "null"

typeHasChildren(kind) == kind \in {"array", "struct", "map"}

\* reflect.Value.Len of an array, map or string (string lengths are only
\* compared with indices, so a string node carries its text and its length
\* is looked up here)
StrLen(s) ==
    CASE s = "" -> 0
      [] s = "1" -> 1
      [] s = "a" -> 1
      [] s = "x" -> 1
      [] s = "-1" -> 2
      [] s = "xy" -> 2
      [] s = "true" -> 4
      [] OTHER -> 1

NodeLen(node) == IF node.k = "string" THEN StrLen(node.v) ELSE Len(node.v)

\* the child of a container at position pos (1-based) of its enumeration
ChildAt(node, pos) == IF node.k = "array" THEN node.v[pos] ELSE node.v[pos].val

(***************************************************************************)
(* Query AST                                                               *)
(***************************************************************************)
rootNodeSymbol == "$"
currentNodeSymbol == "@"
childSegmentType == "child"
descendantSegmentType == "descendant"

\* queryParser: root.nodeIdentifierSymbol and root.segments
Query(sym, segs) == [nodeIdentifierSymbol |-> sym, segments |-> segs]
Segment(type, sels) == [segmentType |-> type, selectors |-> sels]
Child(sel) == Segment(childSegmentType, <<sel>>)
Desc(sel) == Segment(descendantSegmentType, <<sel>>)

wildcardSelector == [t |-> "wildcard"]
nameSelector(name) == [t |-> "name", name |-> name]
indexSelector(index) == [t |-> "index", index |-> index]
optionalInt(isDefined, intValue) == [isDefined |-> isDefined, intValue |-> intValue]
undefinedOptionalInt == optionalInt(FALSE, 0)
arraySliceSelector(start, end, step) == [t |-> "slice", start |-> start, end |-> end, step |-> step]
filterSelector(expr) == [t |-> "filter", expr |-> expr]

\* the nil segment and selector of a fresh qryExecContext
NoSegment == [segmentType |-> "nil", selectors |-> <<>>]
NoSelector == [t |-> "nil"]

(***************************************************************************)
(* Results: a Go (value, error) pair.  err is "none" or the kind of error; *)
(* isNil says that the returned pointer is nil; a ResultSet has elems, a   *)
(* Singular has value.                                                     *)
(***************************************************************************)
NoErr == "none"
ExecutionError == "ExecutionError"
InternalError == "error"
Panic == "panic"

ResultSet(elems) == [err |-> NoErr, isNil |-> FALSE, t |-> "ResultSet", elems |-> elems, value |-> Null]
emptyResultSet == ResultSet(<<>>)
NilResult == [err |-> NoErr, isNil |-> TRUE, t |-> "nil", elems |-> <<>>, value |-> Null]
Singular(value) == [err |-> NoErr, isNil |-> FALSE, t |-> "Singular", elems |-> <<>>, value |-> value]
Failed(err) == [err |-> err, isNil |-> TRUE, t |-> "nil", elems |-> <<>>, value |-> Null]

\* nodeResults != nil && len(nodeResults.Elems) > 0
HasElems(r) == ~r.isNil /\ Len(r.elems) > 0

(***************************************************************************)
(* The comparison matrix.  A comparison returns a Go bool unless it        *)
(* panics: CmpRet(b) is the returned bool, CmpPanic a panic that unwinds   *)
(* the whole evaluation.                                                   *)
(***************************************************************************)
eqOp == "=="
neOp == "!="
ltOp == "<"
gtOp == ">"
leOp == "<="
geOp == ">="
CompareOps == {eqOp, neOp, ltOp, gtOp, leOp, geOp}

CmpRet(b) == [crashed |-> FALSE, b |-> b]
CmpPanic == [crashed |-> TRUE, b |-> FALSE]

\* the strings of the model in Go's (byte-wise) string order
StrOrder == <<"", "-1", "1", "a", "true", "x", "xy">>
StrRank(s) == CHOOSE i \in 1..Len(StrOrder) : StrOrder[i] = s

\* strconv.ParseInt(s, 10, 64), ParseUint, ParseFloat (in halves) and
\* ParseBool on the strings of the model
ParseInt(s) ==
    CASE s = "1" -> [ok |-> TRUE, v |-> 1]
      [] s = "-1" -> [ok |-> TRUE, v |-> -1]
      [] OTHER -> [ok |-> FALSE, v |-> 0]
ParseUint(s) ==
    CASE s = "1" -> [ok |-> TRUE, v |-> 1]
      [] OTHER -> [ok |-> FALSE, v |-> 0]
ParseFloat(s) ==
    CASE s = "1" -> [ok |-> TRUE, v |-> 2]
      [] s = "-1" -> [ok |-> TRUE, v |-> -2]
      [] OTHER -> [ok |-> FALSE, v |-> 0]
ParseBool(s) ==
    CASE s = "1" -> [ok |-> TRUE, v |-> TRUE]
      [] s = "true" -> [ok |-> TRUE, v |-> TRUE]
      [] OTHER -> [ok |-> FALSE, v |-> FALSE]

\* float64(i) of an integer, in halves
ToFloat(i) == 2 * i

compareBool(l, r, op) ==
    CASE op = eqOp -> l = r
      [] op = neOp -> l # r
      [] OTHER -> FALSE

\* compareInt, compareUint and compareFloat are the same switch over the
\* operator on int64, uint64 and float64 operands
compareInt(l, r, op) ==
    CASE op = eqOp -> l = r
      [] op = neOp -> l # r
      [] op = ltOp -> l < r
      [] op = gtOp -> l > r
      [] op = leOp -> l <= r
      [] op = geOp -> l >= r
compareUint(l, r, op) == compareInt(l, r, op)
compareFloat(l, r, op) == compareInt(l, r, op)
compareString(l, r, op) == compareInt(StrRank(l), StrRank(r), op)

compareBoolTo(l, r, op) ==
    CASE r.k = "bool" -> compareBool(l, r.v, op)
      [] r.k = "string" ->
            LET b == ParseBool(r.v) IN IF ~b.ok THEN FALSE ELSE compareBool(l, b.v, op)
      [] OTHER -> FALSE

\* The integers are IntBits wide in place of 64: an int is in
\* -2^(IntBits-1) .. 2^(IntBits-1) - 1 and a uint in 0 .. 2^IntBits - 1.
\* uint64(i) of an int wraps around.
IntBits == 3
RECURSIVE Pow2(_)
Pow2(n) == IF n <= 0 THEN 1 ELSE 2 * Pow2(n - 1)
ToUint(i) == i % Pow2(IntBits)

\* a variant of compareIntTo without the case of a negative int
compareIntTo_converting(l, r, op) ==
    CASE r.k = "int" -> compareInt(l, r.v, op)
      [] r.k = "uint" -> compareUint(ToUint(l), r.v, op)
      [] r.k = "float" -> compareFloat(ToFloat(l), r.v, op)
      [] r.k = "string" ->
            LET ri == ParseInt(r.v) IN IF ~ri.ok THEN FALSE ELSE compareInt(l, ri.v, op)
      [] r.k \in {"map", "struct", "array", "bool"} -> FALSE

compareIntTo(l, r, op) ==
    CASE r.k = "int" -> compareInt(l, r.v, op)
      [] r.k = "uint" ->
            IF l < 0
            THEN CASE op = eqOp -> FALSE
                   [] op = neOp -> TRUE
                   [] op \in {ltOp, leOp} -> TRUE
                   [] op \in {gtOp, geOp} -> FALSE
            ELSE compareUint(ToUint(l), r.v, op)
      [] r.k = "float" -> compareFloat(ToFloat(l), r.v, op)
      [] r.k = "string" ->
            LET ri == ParseInt(r.v) IN IF ~ri.ok THEN FALSE ELSE compareInt(l, ri.v, op)
      [] r.k \in {"map", "struct", "array", "bool"} -> FALSE

compareUintTo(l, r, op) ==
    CASE r.k = "int" ->
            IF r.v < 0
            THEN CASE op = eqOp -> FALSE
                   [] op = neOp -> TRUE
                   [] op \in {ltOp, leOp} -> FALSE
                   [] op \in {gtOp, geOp} -> TRUE
            ELSE compareUint(l, ToUint(r.v), op)
      [] r.k = "uint" -> compareUint(l, r.v, op)
      [] r.k = "float" -> compareFloat(ToFloat(l), r.v, op)
      [] r.k = "string" ->
            LET ru == ParseUint(r.v) IN IF ~ru.ok THEN FALSE ELSE compareUint(l, ru.v, op)
      [] r.k \in {"map", "struct", "array", "bool"} -> FALSE

compareFloatTo(l, r, op) ==
    CASE r.k = "int" -> compareFloat(l, ToFloat(r.v), op)
      [] r.k = "uint" -> compareFloat(l, ToFloat(r.v), op)
      [] r.k = "float" -> compareFloat(l, r.v, op)
      [] r.k = "string" ->
            LET rf == ParseFloat(r.v) IN IF ~rf.ok THEN FALSE ELSE compareFloat(l, rf.v, op)
      [] r.k \in {"map", "struct", "array", "bool"} -> FALSE

compareStringTo(l, r, op) ==
    CASE r.k = "int" ->
            LET li == ParseInt(l) IN IF ~li.ok THEN FALSE ELSE compareInt(li.v, r.v, op)
      [] r.k = "uint" ->
            LET lu == ParseUint(l) IN IF ~lu.ok THEN FALSE ELSE compareUint(lu.v, r.v, op)
      [] r.k = "float" ->
            LET lf == ParseFloat(l) IN IF ~lf.ok THEN FALSE ELSE compareFloat(lf.v, r.v, op)
      [] r.k = "bool" ->
            LET lb == ParseBool(l) IN IF ~lb.ok THEN FALSE ELSE compareBool(lb.v, r.v, op)
      [] r.k = "string" -> compareString(l, r.v, op)
      [] r.k \in {"map", "struct", "array"} -> FALSE

\* r.FieldByName(name) / r.MapIndex(key): the position of the entry, 0 when
\* there is none (the zero reflect.Value)
FieldPos(node, key) ==
    IF \E i \in 1..Len(node.v) : node.v[i].key = key
    THEN CHOOSE i \in 1..Len(node.v) : node.v[i].key = key
    ELSE 0

\* reflect.Value.Len panics on a struct
LenPanics(node) == node.k = "struct"

RECURSIVE compareRValues(_, _, _)
RECURSIVE compareArrayLoop(_, _, _, _)
RECURSIVE compareNamedValuesLoop(_, _, _, _)

\* the loop of compareArray over i = 0 .. l.Len()-1 (pos = i + 1)
compareArrayLoop(l, r, op, pos) ==
    IF pos > Len(l.v) THEN CmpRet(op = eqOp)
    ELSE LET compareElemResult == compareRValues(l.v[pos], r.v[pos], op)
         IN  IF compareElemResult.crashed THEN CmpPanic
             ELSE IF ~compareElemResult.b THEN CmpRet(op # eqOp)
             ELSE compareArrayLoop(l, r, op, pos + 1)

compareArray(l, r, op) ==
    IF op \in {eqOp, neOp}
    THEN IF Len(l.v) # Len(r.v) THEN CmpRet(op # eqOp)
         ELSE compareArrayLoop(l, r, op, 1)
    ELSE CmpRet(FALSE)

compareArrayTo(l, r, op) ==
    IF r.k = "array" THEN compareArray(l, r, op) ELSE CmpRet(FALSE)

\* the loops of compareNamedValues over the fields of l (a struct) or the
\* keys of l (a map); a key of a data map is always a string.  IsZero
\* panics on the zero Value of a field that r does not have, and is true of
\* a field of r that holds a nil interface.
compareNamedValuesLoop(l, r, op, pos) ==
    IF pos > Len(l.v) THEN CmpRet(op = eqOp)
    ELSE LET rpos == FieldPos(r, l.v[pos].key)
         IN  IF rpos = 0 THEN CmpPanic
             ELSE IF indirectIsNil(r.v[rpos].val) THEN CmpRet(op # eqOp)
             ELSE LET fieldResult == compareRValues(l.v[pos].val, r.v[rpos].val, op)
                  IN  IF fieldResult.crashed THEN CmpPanic
                      ELSE IF ~fieldResult.b THEN CmpRet(op # eqOp)
                      ELSE compareNamedValuesLoop(l, r, op, pos + 1)

compareNamedValues(l, r, op) ==
    IF op \in {eqOp, neOp}
    THEN IF LenPanics(l) \/ LenPanics(r) THEN CmpPanic
         ELSE IF Len(l.v) # Len(r.v) THEN CmpRet(op # eqOp)
         ELSE compareNamedValuesLoop(l, r, op, 1)
    ELSE CmpRet(FALSE)

compareNamedValuesTo(l, r, op) ==
    IF r.k \in {"map", "struct"} THEN compareNamedValues(l, r, op) ELSE CmpRet(FALSE)

compareRValues(l, r, op) ==
    IF indirectIsNil(l) \/ indirectIsNil(r)
    THEN CmpRet(indirectIsNil(l) = indirectIsNil(r))
    ELSE CASE l.k = "bool" -> CmpRet(compareBoolTo(l.v, r, op))
           [] l.k = "int" -> CmpRet(compareIntTo(l.v, r, op))
           [] l.k = "uint" -> CmpRet(compareUintTo(l.v, r, op))
           [] l.k = "float" -> CmpRet(compareFloatTo(l.v, r, op))
           [] l.k = "string" -> CmpRet(compareStringTo(l.v, r, op))
           [] l.k \in {"map", "struct"} -> compareNamedValuesTo(l, r, op)
           [] l.k = "array" -> compareArrayTo(l, r, op)

\* l and r are the *Singular operands: a nil pointer (isNil) when the
\* operand did not evaluate to a value, value Null for the JSON null
compareValues(l, r, op) ==
    IF l.isNil \/ r.isNil THEN CmpRet(l.isNil /\ r.isNil)
    ELSE IF l.value.k = "null" \/ r.value.k = "null"
         THEN CmpRet(l.value.k = "null" /\ r.value.k = "null")
    ELSE compareRValues(l.value, r.value, op)

(***************************************************************************)
(* Filter expression AST                                                   *)
(***************************************************************************)
andOp == "&&"
orOp == "||"
notOp == "!"

filterQry(evalExistenceOnly, parser) ==
    [t |-> "filterQry", evalExistenceOnly |-> evalExistenceOnly, parser |-> parser]
compareExpr(left, op, right) == [t |-> "compareExpr", left |-> left, right |-> right, compareOp |-> op]
logicalExpr(left, op, right) == [t |-> "logicalExpr", left |-> left, right |-> right, logicalOp |-> op]
notExpr(left) == [t |-> "logicalExpr", left |-> left, right |-> [t |-> "nil"], logicalOp |-> notOp]
parenExpr(inner) == [t |-> "parenExpr", inner |-> inner]
\* a literal holds its value as the data node it evaluates to
stringLiteral(val) == [t |-> "stringLiteral", val |-> StrV(val)]
intLiteral(val) == [t |-> "intLiteral", val |-> IntV(val)]
floatLiteral(val) == [t |-> "floatLiteral", val |-> FloatV(val)]
boolLiteral(val) == [t |-> "boolLiteral", val |-> BoolV(val)]
nullLiteral == [t |-> "nullLiteral", val |-> Null]
functionExpr(fct, args) == [t |-> "functionExpr", fct |-> fct, args |-> args]

(***************************************************************************)
(* The query executor                                                      *)
(***************************************************************************)
qryExecContext(dataRoot, evalExistenceOnly, allow, remainingSegments, curSegment, curSelector) ==
    [dataRoot |-> dataRoot, evalExistenceOnly |-> evalExistenceOnly,
     allowMissingKeys |-> allow, remainingSegments |-> remainingSegments,
     curSegment |-> curSegment, curSelector |-> curSelector]

\* a variant of areMissingKeysAllowed without the test of the segment type
areMissingKeysAllowed_anySegment(ctx) ==
    ctx.allowMissingKeys \/ ctx.curSegment.segmentType # "nil"

\* a variant of areMissingKeysAllowed that reads the option alone
areMissingKeysAllowed_optionOnly(ctx) == ctx.allowMissingKeys

areMissingKeysAllowed(ctx) ==
    ctx.allowMissingKeys
        \/ (ctx.curSegment.segmentType # "nil" /\ ctx.curSegment.segmentType # childSegmentType)

isDescending(ctx) ==
    ctx.curSegment.segmentType # "nil" /\ ctx.curSegment.segmentType = descendantSegmentType

duplicateAndTakeFirstSegmentOff(ctx) ==
    [ctx EXCEPT !.remainingSegments = Tail(ctx.remainingSegments)]

\* the order in which walkChildren visits the child positions of a node
WalkOrder(node, reverseOrder) ==
    IF node.k = "array" /\ reverseOrder
    THEN [j \in 1..Len(node.v) |-> Len(node.v) + 1 - j]
    ELSE [j \in 1..Len(node.v) |-> j]

\* The selector function handed to walkChildren, with the variables its
\* closure captures (missingKey, nextSliceIndex) as fields.
selAll == [f |-> "all"]
selByName(name, missingKey) == [f |-> "name", name |-> name, missingKey |-> missingKey]
selByIndex(selIndex) == [f |-> "index", selIndex |-> selIndex]
selBySlice(step, sliceStep, sliceEnd, nextSliceIndex) ==
    [f |-> "slice", step |-> step, sliceStep |-> sliceStep, sliceEnd |-> sliceEnd,
     nextSliceIndex |-> nextSliceIndex]
selNone == [f |-> "none"]
selByFilter(expr) == [f |-> "filter", expr |-> expr]

\* what a call of the selector function returns: (bool, error) and the
\* closure after the call
SelRet(selected, selFct) == [err |-> NoErr, selected |-> selected, selFct |-> selFct]
SelErr(err, selFct) == [err |-> err, selected |-> FALSE, selFct |-> selFct]

\* a walk's (*ResultSet, error) together with the closure after the walk
WalkRet(r, selFct) == [r |-> r, selFct |-> selFct]

RECURSIVE Call(_, _)

executeQuery(p, rootDataNode, currDataNode, evalExistenceOnly, allow) ==
    LET qryRoot == IF p.nodeIdentifierSymbol = rootNodeSymbol THEN rootDataNode ELSE currDataNode
        ctx == qryExecContext(rootDataNode, evalExistenceOnly, allow, p.segments, NoSegment, NoSelector)
    IN  Call("findResults", <<ctx, qryRoot>>)

\* a variant of findResults that evaluates its segment with existence-only
\* off
findResults_ignoringExistenceOnly(ctx, curNode) ==
    IF Len(ctx.remainingSegments) <= 0 THEN ResultSet(<<curNode>>)
    ELSE IF indirectIsNil(curNode.n) THEN emptyResultSet
    ELSE Call("findResultsLoop",
              <<[ctx EXCEPT !.curSegment = Head(ctx.remainingSegments),
                            !.evalExistenceOnly = FALSE], curNode, 1, <<>> >>)

findResults(ctx, curNode) ==
    IF Len(ctx.remainingSegments) <= 0 THEN ResultSet(<<curNode>>)
    ELSE IF indirectIsNil(curNode.n) THEN emptyResultSet
    ELSE Call("findResultsLoop", <<[ctx EXCEPT !.curSegment = Head(ctx.remainingSegments)], curNode, 1, <<>> >>)

\* the loop of findResults over the selectors of ctx.curSegment
findResultsLoop(ctx, n, i, results) ==
    IF i > Len(ctx.curSegment.selectors) THEN ResultSet(results)
    ELSE LET selCtx == [ctx EXCEPT !.curSelector = ctx.curSegment.selectors[i]]
             nodeResults ==
                 Call("selectChildrenAndFindResultsForThem", <<duplicateAndTakeFirstSegmentOff(selCtx), n>>)
         IN  IF nodeResults.err # NoErr THEN Failed(nodeResults.err)
             ELSE IF HasElems(nodeResults)
                  THEN IF ctx.evalExistenceOnly THEN nodeResults
                       ELSE Call("findResultsLoop", <<ctx, n, i + 1, results \o nodeResults.elems>>)
             ELSE Call("findResultsLoop", <<ctx, n, i + 1, results>>)

selectAllChildrenAndFindResultsForThem(ctx, curNode) ==
    Call("walkChildren", <<ctx, curNode, FALSE, selAll>>).r

selectChildByNameAndFindResultsForThem(ctx, curNode) ==
    IF ~areMissingKeysAllowed(ctx) /\ indirectIsNil(curNode.n) THEN Failed(ExecutionError)
    ELSE IF ~areMissingKeysAllowed(ctx) /\ curNode.n.k \notin {"struct", "map"}
         THEN Failed(ExecutionError)
    ELSE LET w == Call("walkChildren", <<ctx, curNode, FALSE, selByName(ctx.curSelector.name, TRUE)>>)
         IN  IF ~areMissingKeysAllowed(ctx) /\ w.selFct.missingKey THEN Failed(ExecutionError)
             ELSE w.r

\* selIndex after the negative index is resolved (only done on an array or
\* a string)
ResolvedIndex(node, index) ==
    IF node.k \in {"array", "string"} /\ index < 0 THEN NodeLen(node) + index ELSE index

selectChildByIndexAndFindResultsForThem(ctx, curNode) ==
    IF indirectIsNil(curNode.n) THEN emptyResultSet
    ELSE LET n == curNode.n
             selIndex == ResolvedIndex(n, ctx.curSelector.index)
         IN  IF n.k \in {"array", "string"}
                    /\ ~areMissingKeysAllowed(ctx) /\ (selIndex >= NodeLen(n) \/ selIndex < 0)
             THEN Failed(ExecutionError)
             ELSE IF n.k \notin {"array", "string"} /\ ~areMissingKeysAllowed(ctx)
                  THEN Failed(ExecutionError)
             ELSE Call("walkChildren", <<ctx, curNode, FALSE, selByIndex(selIndex)>>).r

\* sliceStart as selectChildrenBySliceAndFindResultsForThem resolves it
SliceStart(sel, arrLength) ==
    IF sel.start.isDefined
    THEN IF sel.start.intValue < 0
         THEN IF arrLength + sel.start.intValue > 0 THEN arrLength + sel.start.intValue ELSE 0
         ELSE sel.start.intValue
    ELSE IF sel.step < 0 /\ arrLength >= 1 THEN arrLength - 1 ELSE 0

\* sliceEnd as selectChildrenBySliceAndFindResultsForThem resolves it
SliceEnd(sel, arrLength) ==
    IF sel.end.isDefined
    THEN IF sel.end.intValue < 0 THEN arrLength + sel.end.intValue ELSE sel.end.intValue
    ELSE IF sel.step < 0 THEN -1 ELSE arrLength

selectChildrenBySliceAndFindResultsForThem(ctx, curNode) ==
    IF indirectIsNil(curNode.n) THEN emptyResultSet
    ELSE LET sel == ctx.curSelector
             n == curNode.n
         IN  IF n.k \in {"array", "string"}
             THEN IF sel.step = 0 THEN NilResult
                  ELSE LET arrLength == NodeLen(n)
                           step == IF sel.step < 0 THEN -1 ELSE 1
                           sliceStart == SliceStart(sel, arrLength)
                           sliceEnd == SliceEnd(sel, arrLength)
                       IN  Call("walkChildren", <<ctx, curNode, step < 0,
                                        selBySlice(step, sel.step, sliceEnd, sliceStart)>>).r
             ELSE IF ~areMissingKeysAllowed(ctx) THEN Failed(ExecutionError)
             ELSE Call("walkChildren", <<ctx, curNode, FALSE, selNone>>).r

selectChildrenByFilterAndFindResultsForThem(ctx, curNode) ==
    Call("walkChildren", <<ctx, curNode, FALSE, selByFilter(ctx.curSelector.expr)>>).r

selectChildrenAndFindResultsForThem(ctx, curNode) ==
    IF indirectIsNil(curNode.n) THEN emptyResultSet
    ELSE CASE ctx.curSelector.t = "wildcard" -> selectAllChildrenAndFindResultsForThem(ctx, curNode)
           [] ctx.curSelector.t = "name" -> selectChildByNameAndFindResultsForThem(ctx, curNode)
           [] ctx.curSelector.t = "index" -> selectChildByIndexAndFindResultsForThem(ctx, curNode)
           [] ctx.curSelector.t = "slice" -> selectChildrenBySliceAndFindResultsForThem(ctx, curNode)
           [] ctx.curSelector.t = "filter" -> selectChildrenByFilterAndFindResultsForThem(ctx, curNode)
           [] OTHER -> Failed(Panic)

\* one call of the selector function: k is the kind of the parent, index
\* the 0-based array or field index (-1 for a map)
callSelFct(ctx, selFct, k, child, fieldKey, index) ==
    CASE selFct.f = "all" -> SelRet(TRUE, selFct)
      [] selFct.f = "name" ->
            IF k \in {"map", "struct"}
            THEN LET selected == fieldKey = selFct.name
                 IN  SelRet(selected,
                            selByName(selFct.name, selFct.missingKey /\ ~selected))
            ELSE SelRet(FALSE, selFct)
      [] selFct.f = "index" ->
            IF k = "array" THEN SelRet(index = selFct.selIndex, selFct)
            ELSE SelRet(FALSE, selFct)
      [] selFct.f = "slice" ->
            IF k = "array"
            THEN IF index = selFct.nextSliceIndex
                        /\ ((selFct.step > 0 /\ selFct.nextSliceIndex < selFct.sliceEnd)
                            \/ (selFct.step < 0 /\ selFct.nextSliceIndex > selFct.sliceEnd))
                 THEN SelRet(TRUE, selBySlice(selFct.step, selFct.sliceStep, selFct.sliceEnd,
                                              selFct.nextSliceIndex + selFct.sliceStep))
                 ELSE SelRet(FALSE, selFct)
            ELSE SelErr(Panic, selFct)
      [] selFct.f = "none" ->
            IF k = "array" THEN SelErr(Panic, selFct) ELSE SelRet(FALSE, selFct)
      [] selFct.f = "filter" ->
            LET expr == Call("evalBoolSingularOrExistenceExpr", <<ctx, child, selFct.expr>>)
            IN  IF expr.err # NoErr THEN SelErr(expr.err, selFct)
                ELSE IF expr.isNil \/ expr.value.k = "null" THEN SelRet(FALSE, selFct)
                ELSE SelRet(expr.value.v, selFct)

walkChildren(ctx, curNode, reverseOrder, selFct) ==
    IF indirectIsNil(curNode.n) THEN WalkRet(emptyResultSet, selFct)
    ELSE IF typeHasChildren(curNode.n.k)
         THEN Call("walkChildrenLoop", <<ctx, curNode, WalkOrder(curNode.n, reverseOrder), 1, selFct, <<>> >>)
    ELSE WalkRet(ResultSet(<<>>), selFct)

\* the loops of walkChildren over the fields, keys or elements of curNode:
\* order[j] is the position of the j-th child visited
walkChildrenLoop(ctx, curNode, order, j, selFct, results) ==
    IF j > Len(order) THEN WalkRet(ResultSet(results), selFct)
    ELSE LET pos == order[j]
             node == curNode.n
             child == Ref(Append(curNode.p, pos), ChildAt(node, pos))
             fieldKey == IF node.k = "array" THEN "" ELSE node.v[pos].key
             index == IF node.k = "map" THEN -1 ELSE pos - 1
             isSelected == callSelFct(ctx, selFct, node.k, child, fieldKey, index)
             childResults ==
                 IF isSelected.selected THEN Call("doWithSelected", <<ctx, child>>)
                 ELSE Call("doWithNotSelected", <<ctx, child>>)
             newResults ==
                 IF HasElems(childResults) THEN results \o childResults.elems ELSE results
         IN  IF isSelected.err # NoErr THEN WalkRet(Failed(isSelected.err), isSelected.selFct)
             ELSE IF childResults.err # NoErr
                  THEN WalkRet(Failed(childResults.err), isSelected.selFct)
             ELSE IF ctx.evalExistenceOnly /\ Len(newResults) > 0
                  THEN WalkRet(ResultSet(newResults), isSelected.selFct)
             ELSE Call("walkChildrenLoop", <<ctx, curNode, order, j + 1, isSelected.selFct, newResults>>)

doWithSelected(ctx, selected) ==
    LET isNil == indirectIsNil(selected.n)
        noSegmentsLeft == Len(ctx.remainingSegments) <= 0
        childResults == findResults(ctx, selected)
        selectedNodeResults ==
            IF noSegmentsLeft THEN <<selected>>
            ELSE IF HasElems(childResults) THEN childResults.elems ELSE <<>>
        descend == ~isNil /\ isDescending(ctx) /\ typeHasChildren(selected.n.k)
        descendantResults == selectChildrenAndFindResultsForThem(ctx, selected)
    IN  IF noSegmentsLeft /\ ctx.evalExistenceOnly THEN ResultSet(<<selected>>)
        ELSE IF ~noSegmentsLeft /\ isNil THEN emptyResultSet
        ELSE IF ~noSegmentsLeft /\ childResults.err # NoErr THEN Failed(childResults.err)
        ELSE IF ~noSegmentsLeft /\ HasElems(childResults) /\ ctx.evalExistenceOnly
             THEN childResults
        ELSE IF ~descend THEN ResultSet(selectedNodeResults)
        ELSE IF descendantResults.err # NoErr THEN Failed(descendantResults.err)
        ELSE IF HasElems(descendantResults)
             THEN IF ctx.evalExistenceOnly THEN descendantResults
                  ELSE ResultSet(selectedNodeResults \o descendantResults.elems)
        ELSE ResultSet(selectedNodeResults)

\* a variant of doWithNotSelected that never descends
doWithNotSelected_noDescent(ctx, notSelected) == emptyResultSet

doWithNotSelected(ctx, notSelected) ==
    IF indirectIsNil(notSelected.n) THEN emptyResultSet
    ELSE IF isDescending(ctx) /\ typeHasChildren(notSelected.n.k)
         THEN selectChildrenAndFindResultsForThem(ctx, notSelected)
    ELSE emptyResultSet

(***************************************************************************)
(* Filter expression evaluation                                            *)
(***************************************************************************)
\* a variant of evalFilterQryExpr that hands allowMissingKeys on unchanged
evalFilterQryExpr_strict(ctx, curNode, expr) ==
    executeQuery(expr.parser, ctx.dataRoot, curNode, expr.evalExistenceOnly, ctx.allowMissingKeys)

\* a variant of evalFilterQryExpr that tolerates missing keys in every
\* relative sub-query
evalFilterQryExpr_tolerant(ctx, curNode, expr) ==
    executeQuery(expr.parser, ctx.dataRoot, curNode, expr.evalExistenceOnly,
                 ctx.allowMissingKeys \/ expr.parser.nodeIdentifierSymbol = currentNodeSymbol)

evalFilterQryExpr(ctx, curNode, expr) ==
    LET allowMissingKeyInFilterQry ==
            IF ~ctx.allowMissingKeys /\ expr.parser.nodeIdentifierSymbol = currentNodeSymbol
            THEN areMissingKeysAllowed(ctx)
            ELSE ctx.allowMissingKeys
    IN  executeQuery(expr.parser, ctx.dataRoot, curNode, expr.evalExistenceOnly,
                     allowMissingKeyInFilterQry)

\* the switch of evalBoolSingularOrExistenceExpr over the QueryResult
BoolOf(exprResult) ==
    IF exprResult.err # NoErr THEN Failed(exprResult.err)
    ELSE IF exprResult.isNil THEN NilResult
    ELSE IF exprResult.t = "ResultSet" THEN Singular(BoolV(Len(exprResult.elems) > 0))
    ELSE IF exprResult.value.k = "bool" THEN exprResult
    ELSE Failed(ExecutionError)

evalBoolSingularOrExistenceExpr(ctx, curNode, expr) == BoolOf(Call("evalExpr", <<ctx, curNode, expr>>))

evalLogicalExpr(ctx, curNode, expr) ==
    LET leftExprVal == evalBoolSingularOrExistenceExpr(ctx, curNode, expr.left)
        rightExprVal == evalBoolSingularOrExistenceExpr(ctx, curNode, expr.right)
    IN  IF leftExprVal.err # NoErr THEN Failed(leftExprVal.err)
        ELSE IF leftExprVal.isNil THEN Failed(Panic)
        ELSE IF expr.logicalOp = notOp THEN Singular(BoolV(~leftExprVal.value.v))
        ELSE IF ~leftExprVal.value.v /\ expr.logicalOp = andOp THEN Singular(BoolV(FALSE))
        ELSE IF leftExprVal.value.v /\ expr.logicalOp = orOp THEN Singular(BoolV(TRUE))
        ELSE IF rightExprVal.err # NoErr THEN Failed(rightExprVal.err)
        ELSE IF rightExprVal.isNil THEN Failed(Panic)
        ELSE Singular(BoolV(rightExprVal.value.v))

\* a variant of the switch of evalSingularExpr that takes the first element
\* of a ResultSet with several elements
SingularOf_first(exprResult) ==
    IF exprResult.err # NoErr THEN Failed(exprResult.err)
    ELSE IF exprResult.isNil THEN NilResult
    ELSE IF exprResult.t = "ResultSet"
         THEN IF Len(exprResult.elems) <= 0 THEN NilResult
              ELSE Singular(exprResult.elems[1].n)
    ELSE exprResult

\* the switch of evalSingularExpr over the QueryResult: the *Singular that
\* the comparison gets (nil for an empty ResultSet)
SingularOf(exprResult) ==
    IF exprResult.err # NoErr THEN Failed(exprResult.err)
    ELSE IF exprResult.isNil THEN NilResult
    ELSE IF exprResult.t = "ResultSet"
         THEN IF Len(exprResult.elems) > 1 THEN Failed(InternalError)
              ELSE IF Len(exprResult.elems) <= 0 THEN NilResult
              ELSE Singular(exprResult.elems[1].n)
    ELSE exprResult

evalSingularExpr(ctx, curNode, expr) == SingularOf(Call("evalExpr", <<ctx, curNode, expr>>))

\* evalCompareExpr once both operands are evaluated
CompareSingulars(left, right, op) ==
    IF left.err # NoErr THEN Failed(left.err)
    ELSE IF right.err # NoErr THEN Failed(right.err)
    ELSE LET b == compareValues(left, right, op)
         IN  IF b.crashed THEN Failed(Panic) ELSE Singular(BoolV(b.b))

evalCompareExpr(ctx, curNode, expr) ==
    CompareSingulars(evalSingularExpr(ctx, curNode, expr.left),
                     evalSingularExpr(ctx, curNode, expr.right), expr.compareOp)

(***************************************************************************)
(* Filter functions.  A function gets the QueryResults of its arguments    *)
(* and returns a (QueryResult, error) pair.  match and search (regular     *)
(* expressions) are left out: no query of the model calls them.            *)
(***************************************************************************)
count(args) ==
    IF Len(args) # 1 THEN Failed(InternalError)
    ELSE LET arg == args[1]
         IN  IF arg.isNil THEN NilResult
             ELSE IF arg.t = "ResultSet" THEN Singular(IntV(Len(arg.elems)))
             ELSE Failed(InternalError)

length(args) ==
    IF Len(args) # 1 THEN Failed(InternalError)
    ELSE LET arg == args[1]
         IN  IF arg.isNil THEN NilResult
             ELSE IF arg.t = "ResultSet"
                  THEN IF Len(arg.elems) <= 0 THEN NilResult
                       ELSE IF Len(arg.elems) > 1 THEN Failed(InternalError)
                       ELSE LET singularValue == arg.elems[1].n
                            IN  IF indirectIsNil(singularValue) THEN NilResult
                                ELSE IF singularValue.k \in {"array", "string", "map", "struct"}
                                     THEN Singular(IntV(NodeLen(singularValue)))
                                ELSE NilResult
             ELSE LET rs == arg.value
                  IN  IF rs.k = "null" THEN NilResult
                      ELSE IF rs.k \in {"string", "array", "map", "struct"}
                           THEN Singular(IntV(NodeLen(rs)))
                      ELSE NilResult

\* the function TestFailExecQuery registers: it hands its argument back
returnargFct(args) ==
    IF Len(args) # 1 THEN Failed(InternalError) ELSE args[1]

\* the names of the registry: the built-in functions and returnarg,
\* registered by RegisterFilterFunction
newFunctionRegistry == {"count", "length", "returnarg"}

\* the loop of evalFunctionExpr over expr.args
evalFunctionArgs(ctx, curNode, args, i, argResults) ==
    IF i > Len(args) THEN [err |-> NoErr, argResults |-> argResults]
    ELSE LET aR == Call("evalExpr", <<ctx, curNode, args[i]>>)
         IN  IF aR.err # NoErr THEN [err |-> aR.err, argResults |-> argResults]
             ELSE Call("evalFunctionArgs", <<ctx, curNode, args, i + 1, Append(argResults, aR)>>)

evalFunctionExpr(ctx, curNode, expr) ==
    IF expr.fct \notin newFunctionRegistry THEN Failed(ExecutionError)
    ELSE LET a == evalFunctionArgs(ctx, curNode, expr.args, 1, <<>>)
         IN  IF a.err # NoErr THEN Failed(a.err)
             ELSE CASE expr.fct = "count" -> count(a.argResults)
                    [] expr.fct = "length" -> length(a.argResults)
                    [] expr.fct = "returnarg" -> returnargFct(a.argResults)

evalExpr(ctx, curNode, expr) ==
    CASE expr.t = "logicalExpr" -> evalLogicalExpr(ctx, curNode, expr)
      [] expr.t = "compareExpr" -> evalCompareExpr(ctx, curNode, expr)
      [] expr.t = "filterQry" -> evalFilterQryExpr(ctx, curNode, expr)
      [] expr.t = "functionExpr" -> evalFunctionExpr(ctx, curNode, expr)
      [] expr.t = "parenExpr" -> Call("evalExpr", <<ctx, curNode, expr.inner>>)
      [] expr.t \in {"stringLiteral", "boolLiteral", "nullLiteral", "intLiteral", "floatLiteral"} ->
            Singular(expr.val)
      [] OTHER -> Failed(Panic)

(***************************************************************************)
(* The template executor.  The writer is the sequence of what was written  *)
(* to it: a text, or the ResultSet handed to printResults.                 *)
(***************************************************************************)
textTemplateElem(text) == [t |-> "text", text |-> text]
jsonpathTemplateElem(qryParser) == [t |-> "jsonpath", qryParser |-> qryParser]
rangeTemplateElem(qryParser, elems) == [t |-> "range", qryParser |-> qryParser, elems |-> elems]

WrittenText(text) == [w |-> "text", text |-> text, elems |-> <<>>]
WrittenResults(elems) == [w |-> "results", text |-> "", elems |-> elems]

\* (error, writer) after a step of the template executor
TmplRet(err, out) == [err |-> err, out |-> out]


execTextTmpl(tt, out) == TmplRet(NoErr, Append(out, WrittenText(tt.text)))

execJPTmpl(ctx, jt, curNode, out) ==
    LET resultSet == executeQuery(jt.qryParser, ctx.rootDataNode, curNode, FALSE, ctx.allowMissingKeys)
    IN  IF resultSet.err # NoErr THEN TmplRet(resultSet.err, out)
        ELSE IF resultSet.isNil THEN TmplRet(InternalError, out)
        ELSE TmplRet(NoErr, Append(out, WrittenResults(resultSet.elems)))

\* a variant of the loop that runs the body on the root node
execRangeLoop_onRoot(ctx, rt, elems, i, out) ==
    IF i > Len(elems) THEN TmplRet(NoErr, out)
    ELSE LET body == Call("execTmplElems", <<ctx, rt.elems, ctx.rootDataNode, 1, out>>)
         IN  IF body.err # NoErr THEN body
             ELSE Call("execRangeLoop", <<ctx, rt, elems, i + 1, body.out>>)

\* the loop of execRangeTmpl over resultSet.Elems
execRangeLoop(ctx, rt, elems, i, out) ==
    IF i > Len(elems) THEN TmplRet(NoErr, out)
    ELSE LET body == Call("execTmplElems", <<ctx, rt.elems, elems[i], 1, out>>)
         IN  IF body.err # NoErr THEN body
             ELSE Call("execRangeLoop", <<ctx, rt, elems, i + 1, body.out>>)

execRangeTmpl(ctx, rt, curNode, out) ==
    LET resultSet == executeQuery(rt.qryParser, ctx.rootDataNode, curNode, FALSE, ctx.allowMissingKeys)
    IN  IF resultSet.err # NoErr THEN TmplRet(resultSet.err, out)
        ELSE IF resultSet.isNil THEN TmplRet(InternalError, out)
        ELSE execRangeLoop(ctx, rt, resultSet.elems, 1, out)

execTmplElem(ctx, te, curNode, out) ==
    CASE te.t = "jsonpath" -> execJPTmpl(ctx, te, curNode, out)
      [] te.t = "range" -> execRangeTmpl(ctx, te, curNode, out)
      [] te.t = "text" -> execTextTmpl(te, out)
      [] OTHER -> TmplRet(Panic, out)

\* a loop over template elements, each executed on curNode
execTmplElems(ctx, elems, curNode, i, out) ==
    IF i > Len(elems) THEN TmplRet(NoErr, out)
    ELSE LET r == execTmplElem(ctx, elems[i], curNode, out)
         IN  IF r.err # NoErr THEN r
             ELSE Call("execTmplElems", <<ctx, elems, curNode, i + 1, r.out>>)

tmplExecCtxt(rootDataNode, allow) == [rootDataNode |-> rootDataNode, allowMissingKeys |-> allow]

executeTemplate(templateElems, rootDataNode, allow) ==
    execTmplElems(tmplExecCtxt(rootDataNode, allow), templateElems, rootDataNode, 1, <<>>)

\* A call of one executor function by another: f names the function and a
\* is the tuple of its arguments.
Call(f, a) ==
    CASE f = "executeQuery" -> executeQuery(a[1], a[2], a[3], a[4], a[5])
      [] f = "findResults" -> findResults(a[1], a[2])
      [] f = "findResultsLoop" -> findResultsLoop(a[1], a[2], a[3], a[4])
      [] f = "selectAllChildrenAndFindResultsForThem" -> selectAllChildrenAndFindResultsForThem(a[1], a[2])
      [] f = "selectChildByNameAndFindResultsForThem" -> selectChildByNameAndFindResultsForThem(a[1], a[2])
      [] f = "selectChildByIndexAndFindResultsForThem" -> selectChildByIndexAndFindResultsForThem(a[1], a[2])
      [] f = "selectChildrenBySliceAndFindResultsForThem" -> selectChildrenBySliceAndFindResultsForThem(a[1], a[2])
      [] f = "selectChildrenByFilterAndFindResultsForThem" -> selectChildrenByFilterAndFindResultsForThem(a[1], a[2])
      [] f = "selectChildrenAndFindResultsForThem" -> selectChildrenAndFindResultsForThem(a[1], a[2])
      [] f = "callSelFct" -> callSelFct(a[1], a[2], a[3], a[4], a[5], a[6])
      [] f = "walkChildren" -> walkChildren(a[1], a[2], a[3], a[4])
      [] f = "walkChildrenLoop" -> walkChildrenLoop(a[1], a[2], a[3], a[4], a[5], a[6])
      [] f = "doWithSelected" -> doWithSelected(a[1], a[2])
      [] f = "doWithNotSelected" -> doWithNotSelected(a[1], a[2])
      [] f = "evalFilterQryExpr" -> evalFilterQryExpr(a[1], a[2], a[3])
      [] f = "evalBoolSingularOrExistenceExpr" -> evalBoolSingularOrExistenceExpr(a[1], a[2], a[3])
      [] f = "evalLogicalExpr" -> evalLogicalExpr(a[1], a[2], a[3])
      [] f = "evalSingularExpr" -> evalSingularExpr(a[1], a[2], a[3])
      [] f = "evalCompareExpr" -> evalCompareExpr(a[1], a[2], a[3])
      [] f = "evalExpr" -> evalExpr(a[1], a[2], a[3])
      [] f = "evalFunctionArgs" -> evalFunctionArgs(a[1], a[2], a[3], a[4], a[5])
      [] f = "execJPTmpl" -> execJPTmpl(a[1], a[2], a[3], a[4])
      [] f = "execRangeLoop" -> execRangeLoop(a[1], a[2], a[3], a[4], a[5])
      [] f = "execRangeTmpl" -> execRangeTmpl(a[1], a[2], a[3], a[4])
      [] f = "execTmplElem" -> execTmplElem(a[1], a[2], a[3], a[4])
      [] f = "execTmplElems" -> execTmplElems(a[1], a[2], a[3], a[4], a[5])

(***************************************************************************)
(* The lexing cursor shared by the query parser and the template parser.   *)
(* A text is a string; input[pos] of the code is CharAt(input, pos).  A    *)
(* step of the cursor returns the cursor after it next to its Go result.   *)
(***************************************************************************)
eof == "EOF"
SyntaxError == "SyntaxError"

innerParser(text, start, pos, subQryCnt) ==
    [input |-> text, start |-> start, pos |-> pos, subQryCnt |-> subQryCnt]
dummyInnerParser == innerParser("", 0, 0, 0)

CharAt(s, i) == SubSeq(s, i + 1, i + 1)

Digits == <<"0", "1", "2", "3", "4", "5", "6", "7", "8", "9">>
Letters ==
    {"a", "b", "c", "d", "e", "f", "g", "h", "i", "j", "k", "l", "m", "n", "o", "p", "q",
     "r", "s", "t", "u", "v", "w", "x", "y", "z", "A", "B", "C", "X", "Y", "Z"}
IsDigit(r) == \E i \in 1..Len(Digits) : Digits[i] = r
isAlphaNumeric(r) == r = "_" \/ r \in Letters \/ IsDigit(r)
Whitespaces == {" ", "\t", "\n", "\r"}

next(p) ==
    IF p.pos >= Len(p.input) THEN [p |-> p, r |-> eof]
    ELSE [p |-> [p EXCEPT !.pos = p.pos + 1], r |-> CharAt(p.input, p.pos)]

peek(p) == IF p.pos >= Len(p.input) THEN eof ELSE CharAt(p.input, p.pos)

consume(p) ==
    [p |-> [p EXCEPT !.start = p.pos], value |-> SubSeq(p.input, p.start + 1, p.pos)]

consumeNext(p) == LET n == next(p) IN [p |-> consume(n.p).p, r |-> n.r]

RECURSIVE nextSkippingAllWhitespaces(_)
nextSkippingAllWhitespaces(p) ==
    LET n == next(p)
    IN  IF n.r \in Whitespaces THEN nextSkippingAllWhitespaces(consume(n.p).p) ELSE n

RECURSIVE peekConsumingAllWhitespaces(_)
peekConsumingAllWhitespaces(p) ==
    IF peek(p) \in Whitespaces THEN peekConsumingAllWhitespaces(consumeNext(p).p)
    ELSE [p |-> p, r |-> peek(p)]

\* the text after the '{' under the cursor and the whitespace that follows
\* it: what the four regular expressions of the template parser look at
RECURSIVE SkipWhitespaces(_)
SkipWhitespaces(s) ==
    IF Len(s) > 0 /\ CharAt(s, 0) \in Whitespaces THEN SkipWhitespaces(SubSeq(s, 2, Len(s))) ELSE s
AfterCurly(p) == SkipWhitespaces(SubSeq(p.input, p.pos + 2, Len(p.input)))
HasPrefix(s, prefix) == Len(s) >= Len(prefix) /\ SubSeq(s, 1, Len(prefix)) = prefix

\* lookAhead of "^\{\s*range", "^\{\s*end\s*\}", "^\{\s*[\"']" and
\* "^\{\s*[$.@\[]"
rangeTmplElemStartRegexp(p) == peek(p) = "{" /\ HasPrefix(AfterCurly(p), "range")
rangeTmplElemEndRegexp(p) ==
    /\ peek(p) = "{"
    /\ HasPrefix(AfterCurly(p), "end")
    /\ HasPrefix(SkipWhitespaces(SubSeq(AfterCurly(p), 4, Len(AfterCurly(p)))), "}")
quotedElemStartRegexp(p) ==
    peek(p) = "{" /\ (HasPrefix(AfterCurly(p), "\"") \/ HasPrefix(AfterCurly(p), "'"))
jpElemStartRegexp(p) ==
    peek(p) = "{" /\ \E c \in {"$", ".", "@", "["} : HasPrefix(AfterCurly(p), c)

\* strconv.ParseInt(s, 10, 32): an optional sign and at least one digit,
\* within 32 bits
DigitValue(r) == (CHOOSE i \in 1..Len(Digits) : Digits[i] = r) - 1
\* the value of a digit string, -1 when it is beyond the largest int32
RECURSIVE DigitsValue(_, _)
DigitsValue(s, acc) ==
    IF Len(s) = 0 THEN acc
    ELSE IF acc < 0 \/ acc > 214748364 \/ (acc = 214748364 /\ DigitValue(CharAt(s, 0)) > 7)
         THEN DigitsValue(SubSeq(s, 2, Len(s)), -1)
    ELSE DigitsValue(SubSeq(s, 2, Len(s)), 10 * acc + DigitValue(CharAt(s, 0)))
RECURSIVE StripZeros(_)
StripZeros(s) == IF Len(s) > 1 /\ CharAt(s, 0) = "0" THEN StripZeros(SubSeq(s, 2, Len(s))) ELSE s
AllDigits(s) == \A i \in 0..(Len(s) - 1) : IsDigit(CharAt(s, i))
strconvParseInt(s) ==
    LET signed == Len(s) > 0 /\ CharAt(s, 0) \in {"+", "-"}
        negative == signed /\ CharAt(s, 0) = "-"
        digits == IF signed THEN SubSeq(s, 2, Len(s)) ELSE s
        magnitude == DigitsValue(digits, 0)
    IN  IF Len(digits) = 0 \/ ~AllDigits(digits) THEN [ok |-> FALSE, v |-> 0]
        ELSE IF negative /\ StripZeros(digits) = "2147483648"
             THEN [ok |-> TRUE, v |-> (0 - 2147483647) - 1]
        ELSE IF magnitude < 0 THEN [ok |-> FALSE, v |-> 0]
        ELSE [ok |-> TRUE, v |-> IF negative THEN 0 - magnitude ELSE magnitude]

\* (value, error) of a cursor function, with the cursor after it
LexRet(p, value) == [err |-> NoErr, p |-> p, value |-> value]
LexErr(p) == [err |-> InternalError, p |-> p, value |-> ""]

RECURSIVE parseIntegerLoop(_)
parseIntegerLoop(p) == IF IsDigit(peek(p)) THEN parseIntegerLoop(next(p).p) ELSE p

parseInteger(p) ==
    LET w == peekConsumingAllWhitespaces(p)
        c == consume(parseIntegerLoop(next(w.p).p))
        i == strconvParseInt(c.value)
    IN  IF ~(w.r \in {"-", "+"} \/ IsDigit(w.r)) THEN LexErr(w.p)
        ELSE IF ~i.ok THEN LexErr(c.p)
        ELSE LexRet(c.p, i.v)

\* strconv.UnquoteChar run over the text between the quotes: \\ and the
\* escaped quote are the escapes the model's texts use; the other escapes
\* that parseQuote lets through (\/, \u, \U) are not modelled and count
\* as an error
RECURSIVE UnquoteChars(_, _)
UnquoteChars(s, quote) ==
    IF Len(s) = 0 THEN [ok |-> TRUE, v |-> ""]
    ELSE IF CharAt(s, 0) = "\\"
         THEN IF Len(s) >= 2 /\ CharAt(s, 1) \in {"\\", quote}
              THEN LET rest == UnquoteChars(SubSeq(s, 3, Len(s)), quote)
                   IN  [ok |-> rest.ok, v |-> CharAt(s, 1) \o rest.v]
              ELSE [ok |-> FALSE, v |-> ""]
    ELSE IF CharAt(s, 0) = quote THEN [ok |-> FALSE, v |-> ""]
    ELSE LET rest == UnquoteChars(SubSeq(s, 2, Len(s)), quote)
         IN  [ok |-> rest.ok, v |-> CharAt(s, 0) \o rest.v]

unquoteExtend(s) ==
    LET n == Len(s)
        quote == CharAt(s, 0)
    IN  IF n < 2 THEN [ok |-> FALSE, v |-> ""]
        ELSE IF quote # CharAt(s, n - 1) THEN [ok |-> FALSE, v |-> ""]
        ELSE IF quote \notin {"\"", "'"} THEN [ok |-> FALSE, v |-> ""]
        ELSE UnquoteChars(SubSeq(s, 2, n - 1), quote)

\* the loop of parseQuote after the opening quote q: the cursor after the
\* closing quote, or an error
RECURSIVE parseQuoteLoop(_, _)
parseQuoteLoop(p, q) ==
    LET n == next(p)
        e == next(n.p)
    IN  IF n.r = eof THEN LexErr(n.p)
        ELSE IF n.r = q THEN LexRet(n.p, "")
        ELSE IF n.r = "\\"
             THEN IF e.r \in {"\\", "/", q, "\r", "\f"} THEN parseQuoteLoop(e.p, q)
                  ELSE LexErr(e.p)
        ELSE parseQuoteLoop(n.p, q)

parseQuote(p) ==
    LET q == next(p)
        l == parseQuoteLoop(q.p, q.r)
        c == consume(l.p)
        s == unquoteExtend(c.value)
    IN  IF l.err # NoErr THEN l
        ELSE IF ~s.ok THEN LexErr(c.p)
        ELSE LexRet(c.p, s.v)

\* unwrapByDelimiters up to the call of the inner parser, and after it
unwrapLeftDelimiter(p, leftDelim, ignoreWhitespacesAdjacentToDelims) ==
    LET n == consumeNext(p)
    IN  IF n.r # leftDelim THEN LexErr(n.p)
        ELSE IF ignoreWhitespacesAdjacentToDelims
             THEN LexRet(peekConsumingAllWhitespaces(n.p).p, "")
        ELSE LexRet(n.p, "")

unwrapRightDelimiter(p, rightDelim, ignoreWhitespacesAdjacentToDelims) ==
    LET n == IF ignoreWhitespacesAdjacentToDelims THEN nextSkippingAllWhitespaces(p) ELSE next(p)
    IN  IF n.r # rightDelim THEN LexErr(n.p) ELSE LexRet(consume(n.p).p, "")

(***************************************************************************)
(* The query parser.  A queryParser is its name, the nodeIdentifier it     *)
(* builds (symbol and segments), its singular flag and the cursor p it     *)
(* shares with the parser that called it.  A parse function returns the    *)
(* queryParser after it next to its Go result (err, v).                    *)
(***************************************************************************)
RECURSIVE ParseCall(_, _)

queryParser(name, p) ==
    [name |-> name, nodeIdentifierSymbol |-> "nil", segments |-> <<>>, isSingular |-> FALSE,
     p |-> p]
newQueryParser == queryParser("JSONPathQry", dummyInnerParser)

NoValue == [t |-> "nil"]
ParseRet(qp, v) == [err |-> NoErr, qp |-> qp, v |-> v]
ParseErr(err, qp) == [err |-> err, qp |-> qp, v |-> NoValue]
WithCursor(qp, p) == [qp EXCEPT !.p = p]

appendSegment(qp, s) == [qp EXCEPT !.segments = Append(qp.segments, s)]
append(segment, sel) == [segment EXCEPT !.selectors = Append(segment.selectors, sel)]

\* the assignments to evalExistenceOnly that the constructors make on the
\* filterQry they are handed
SetExistenceOnly(expr, b) ==
    IF expr.t = "filterQry" THEN [expr EXCEPT !.evalExistenceOnly = b] ELSE expr
SetExistenceOnlyInParen(expr) ==
    IF expr.t = "parenExpr" /\ expr.inner.t = "filterQry"
    THEN parenExpr(SetExistenceOnly(expr.inner, TRUE))
    ELSE expr

newFilterSelector(expr) ==
    LET fe == IF expr.t = "parenExpr" THEN expr.inner ELSE expr
    IN  IF fe.t = "parenExpr" THEN [err |-> Panic, v |-> NoValue]
        ELSE [err |-> NoErr, v |-> filterSelector(SetExistenceOnly(fe, TRUE))]

newFunctionExpr(fctName, args) ==
    functionExpr(fctName,
                 [i \in 1..Len(args) |-> IF args[i].t = "parenExpr" THEN args[i].inner ELSE args[i]])

\* a variant of newLogicalExpr that leaves the flags of its operands alone
newLogicalExpr_keepingFlags(left, right, op) ==
    IF op = notOp THEN notExpr(left) ELSE logicalExpr(left, op, right)

newLogicalExpr(left, right, op) ==
    IF op = notOp THEN notExpr(SetExistenceOnlyInParen(SetExistenceOnly(left, TRUE)))
    ELSE logicalExpr(SetExistenceOnlyInParen(SetExistenceOnly(left, TRUE)), op,
                     SetExistenceOnlyInParen(SetExistenceOnly(right, TRUE)))

\* a variant of newCompareExpr that accepts a comparison as an operand
newCompareExpr_cascading(left, right, op) ==
    IF "logicalExpr" \in {left.t, right.t} THEN [err |-> Panic, v |-> NoValue]
    ELSE [err |-> NoErr,
          v |-> compareExpr(SetExistenceOnlyInParen(SetExistenceOnly(left, FALSE)), op,
                            SetExistenceOnlyInParen(SetExistenceOnly(right, FALSE)))]

newCompareExpr(left, right, op) ==
    IF left.t = "compareExpr" THEN [err |-> InternalError, v |-> NoValue]
    ELSE IF left.t = "logicalExpr" THEN [err |-> Panic, v |-> NoValue]
    ELSE IF right.t = "compareExpr" THEN [err |-> InternalError, v |-> NoValue]
    ELSE IF right.t = "logicalExpr" THEN [err |-> Panic, v |-> NoValue]
    ELSE [err |-> NoErr,
          v |-> compareExpr(SetExistenceOnlyInParen(SetExistenceOnly(left, FALSE)), op,
                            SetExistenceOnlyInParen(SetExistenceOnly(right, FALSE)))]

newParenExpr(expr) ==
    IF expr.t \in {"filterQry", "compareExpr", "logicalExpr"} THEN parenExpr(expr) ELSE expr

RECURSIVE parseAlphaNumericLoop(_)
parseAlphaNumericLoop(p) ==
    IF peek(p) = "\\" THEN LexErr(p)
    ELSE IF isAlphaNumeric(peek(p)) THEN parseAlphaNumericLoop(next(p).p)
    ELSE LexRet(p, "")

parseAlphaNumeric(qp) ==
    LET l == parseAlphaNumericLoop(qp.p)
        c == consume(l.p)
    IN  IF l.err # NoErr THEN ParseErr(SyntaxError, WithCursor(qp, l.p))
        ELSE ParseRet(WithCursor(qp, c.p), c.value)

\* strconv.ParseFloat for a text that parseNumberLiteral has scanned (digits
\* with a '.' or an 'e' part), as a number of halves.  exact says that the
\* text is a number of halves of at most nine digits; for the other texts v
\* is the number of halves below the value.
Find(s, c) ==
    IF \E i \in 0..(Len(s) - 1) : CharAt(s, i) = c
    THEN CHOOSE i \in 0..(Len(s) - 1) :
            CharAt(s, i) = c /\ \A j \in 0..(i - 1) : CharAt(s, j) # c
    ELSE Len(s)
RECURSIVE StripTrailingZeros(_)
StripTrailingZeros(s) ==
    IF Len(s) > 0 /\ CharAt(s, Len(s) - 1) = "0"
    THEN StripTrailingZeros(SubSeq(s, 1, Len(s) - 1)) ELSE s
RECURSIVE Pow10(_)
Pow10(n) == IF n <= 0 THEN 1 ELSE 10 * Pow10(n - 1)
strconvParseFloat(s) ==
    LET signed == Len(s) > 0 /\ CharAt(s, 0) \in {"+", "-"}
        body == IF signed THEN SubSeq(s, 2, Len(s)) ELSE s
        mantissa == SubSeq(body, 1, Find(body, "e"))
        hasExp == Find(body, "e") < Len(body)
        exponent == SubSeq(body, Find(body, "e") + 2, Len(body))
        expSigned == Len(exponent) > 0 /\ CharAt(exponent, 0) \in {"+", "-"}
        expDigits == IF expSigned THEN SubSeq(exponent, 2, Len(exponent)) ELSE exponent
        expValue ==
            IF ~hasExp THEN 0
            ELSE IF expSigned /\ CharAt(exponent, 0) = "-" THEN 0 - DigitsValue(expDigits, 0)
            ELSE DigitsValue(expDigits, 0)
        whole == SubSeq(mantissa, 1, Find(mantissa, "."))
        fraction == StripTrailingZeros(SubSeq(mantissa, Find(mantissa, ".") + 2, Len(mantissa)))
        digits == StripZeros(whole \o fraction)
        scale == expValue - Len(fraction)
        small == Len(digits) <= 8 /\ scale <= 8 - Len(digits) /\ scale >= -8
        twice == 2 * DigitsValue(digits, 0)
        halves ==
            IF ~small THEN 0
            ELSE IF scale >= 0 THEN twice * Pow10(scale)
            ELSE twice \div Pow10(0 - scale)
    IN  IF ~AllDigits(whole) \/ ~AllDigits(fraction) \/ Len(mantissa) = 0 \/ mantissa = "."
        THEN [ok |-> FALSE, v |-> 0, exact |-> FALSE]
        ELSE IF hasExp /\ (Len(expDigits) = 0 \/ ~AllDigits(expDigits))
             THEN [ok |-> FALSE, v |-> 0, exact |-> FALSE]
        ELSE [ok |-> TRUE,
              v |-> IF signed /\ CharAt(s, 0) = "-" THEN 0 - halves ELSE halves,
              exact |-> small /\ (scale >= 0 \/ twice % Pow10(0 - scale) = 0)]

\* the scan of parseNumberLiteral
RECURSIVE parseNumberLoop(_, _, _)
parseNumberLoop(p, decimalSep, expSep) ==
    LET r == peek(p)
        e == next(p).p
    IN  IF r = "." /\ ~decimalSep THEN parseNumberLoop(next(p).p, TRUE, expSep)
        ELSE IF r = "e" /\ ~expSep
             THEN parseNumberLoop(IF peek(e) \in {"-", "+"} THEN next(e).p ELSE e, decimalSep, TRUE)
        ELSE IF IsDigit(r) THEN parseNumberLoop(next(p).p, decimalSep, expSep)
        ELSE [p |-> p, decimalSep |-> decimalSep, expSep |-> expSep]

parseNumberLiteral(qp) ==
    LET l == parseNumberLoop(IF peek(qp.p) \in {"-", "+"} THEN next(qp.p).p ELSE qp.p, FALSE, FALSE)
        c == consume(l.p)
        f == strconvParseFloat(c.value)
        i == strconvParseInt(c.value)
    IN  IF l.decimalSep \/ l.expSep
        THEN IF ~f.ok THEN ParseErr(SyntaxError, WithCursor(qp, c.p))
             ELSE ParseRet(WithCursor(qp, c.p), floatLiteral(f.v))
        ELSE IF ~i.ok THEN ParseErr(SyntaxError, WithCursor(qp, c.p))
             ELSE ParseRet(WithCursor(qp, c.p), intLiteral(i.v))

StartsInteger(r) == r \in {"+", "-"} \/ IsDigit(r)

\* v is <<start, end, step>>
parseArraySliceValues(qp, start) ==
    LET w == peekConsumingAllWhitespaces(qp.p)
        endVal == parseInteger(w.p)
        end == IF StartsInteger(w.r) THEN optionalInt(TRUE, endVal.value) ELSE undefinedOptionalInt
        p1 == IF StartsInteger(w.r) THEN endVal.p ELSE w.p
        w2 == peekConsumingAllWhitespaces(p1)
        p2 == consumeNext(w2.p).p
        w3 == peekConsumingAllWhitespaces(p2)
        stepVal == parseInteger(w3.p)
    IN  IF StartsInteger(w.r) /\ endVal.err # NoErr THEN ParseErr(SyntaxError, WithCursor(qp, endVal.p))
        ELSE IF ~StartsInteger(w.r) /\ w.r # ":"
             THEN ParseRet(WithCursor(qp, w.p), <<start, undefinedOptionalInt, 1>>)
        ELSE IF w2.r # ":" THEN ParseRet(WithCursor(qp, w2.p), <<start, end, 1>>)
        ELSE IF StartsInteger(w3.r)
             THEN IF stepVal.err # NoErr THEN ParseErr(SyntaxError, WithCursor(qp, stepVal.p))
                  ELSE ParseRet(WithCursor(qp, stepVal.p), <<start, end, stepVal.value>>)
        ELSE ParseRet(WithCursor(qp, w3.p), <<start, end, 1>>)

\* v is the segment with the selector appended
parseIndexOrArraySliceSelector(qp, segment) ==
    LET w == peekConsumingAllWhitespaces(qp.p)
        open == ParseCall("parseArraySliceValues", <<WithCursor(qp, consumeNext(w.p).p), undefinedOptionalInt>>)
        i == parseInteger(w.p)
        w2 == peekConsumingAllWhitespaces(i.p)
        from == ParseCall("parseArraySliceValues", <<WithCursor(qp, consumeNext(w2.p).p), optionalInt(TRUE, i.value)>>)
        Slice(s) ==
            IF s.err # NoErr THEN s
            ELSE ParseRet(s.qp, append(segment, arraySliceSelector(s.v[1], s.v[2], s.v[3])))
    IN  IF w.r = ":" THEN Slice(open)
        ELSE IF StartsInteger(w.r)
             THEN IF i.err # NoErr THEN ParseErr(SyntaxError, WithCursor(qp, i.p))
                  ELSE IF w2.r = ":" THEN Slice(from)
                  ELSE ParseRet(WithCursor(qp, w2.p), append(segment, indexSelector(i.value)))
        ELSE ParseErr(SyntaxError, WithCursor(qp, w.p))

parseFilterQryExpr(qp) ==
    LET p1 == [qp.p EXCEPT !.subQryCnt = qp.p.subQryCnt + 1]
        filterQryParser ==
            ParseCall("parseInnerQuery", <<"filterQry-" \o ToString(p1.subQryCnt - 1), FALSE, p1>>)
    IN  IF filterQryParser.err # NoErr
        THEN ParseErr(filterQryParser.err, WithCursor(qp, filterQryParser.qp.p))
        ELSE ParseRet(WithCursor(qp, filterQryParser.qp.p),
                      filterQry(FALSE, WithCursor(filterQryParser.qp, dummyInnerParser)))

parseTextExpr(qp) ==
    LET w == peekConsumingAllWhitespaces(qp.p)
        q == parseQuote(w.p)
        s == ParseCall("parseAlphaNumeric", <<WithCursor(qp, w.p)>>)
        exprs == ParseCall("parseParenthesisExpr", <<s.qp, TRUE>>)
    IN  IF w.r \in {"\"", "'"}
        THEN IF q.err # NoErr THEN ParseErr(SyntaxError, WithCursor(qp, q.p))
             ELSE ParseRet(WithCursor(qp, q.p), stringLiteral(q.value))
        ELSE IF IsDigit(w.r) \/ w.r \in {"-", "+"} THEN ParseCall("parseNumberLiteral", <<WithCursor(qp, w.p)>>)
        ELSE IF isAlphaNumeric(w.r)
             THEN IF s.err # NoErr THEN s
                  ELSE IF s.v \in {"true", "false"} THEN ParseRet(s.qp, boolLiteral(s.v = "true"))
                  ELSE IF s.v = "null" THEN ParseRet(s.qp, nullLiteral)
                  ELSE IF exprs.err # NoErr THEN exprs
                  ELSE ParseRet(exprs.qp, newFunctionExpr(s.v, exprs.v))
        ELSE ParseErr(SyntaxError, WithCursor(qp, w.p))

parseFilterExpr(qp) ==
    LET w == peekConsumingAllWhitespaces(qp.p)
        exprs == ParseCall("parseParenthesisExpr", <<WithCursor(qp, w.p), FALSE>>)
    IN  IF w.r \in {"@", "$", ".", "["} THEN ParseCall("parseFilterQryExpr", <<WithCursor(qp, w.p)>>)
        ELSE IF w.r = "("
             THEN IF exprs.err # NoErr THEN exprs
                  ELSE IF Len(exprs.v) # 1 THEN ParseErr(SyntaxError, exprs.qp)
                  ELSE ParseRet(exprs.qp, exprs.v[1])
        ELSE ParseCall("parseTextExpr", <<WithCursor(qp, w.p)>>)

\* a variant of the rebalancing that keeps the operators as they are read
Rebalanced_none(leftExpr, rightExpr, op) == newLogicalExpr(leftExpr, rightExpr, op)

\* the rebalancing of parseFilterOpAndRightExpr: '&&' before '||'
Rebalanced(leftExpr, rightExpr, op) ==
    IF op = andOp /\ leftExpr.t = "logicalExpr" /\ leftExpr.logicalOp = orOp
    THEN newLogicalExpr(leftExpr.left, newLogicalExpr(leftExpr.right, rightExpr, op), orOp)
    ELSE IF op = andOp /\ rightExpr.t = "logicalExpr" /\ rightExpr.logicalOp = orOp
         THEN newLogicalExpr(newLogicalExpr(leftExpr, rightExpr.left, op), rightExpr.right, orOp)
    ELSE newLogicalExpr(leftExpr, rightExpr, op)

parseFilterOpAndRightExpr(qp, leftExpr) ==
    LET w == peekConsumingAllWhitespaces(qp.p)
        p1 == next(w.p).p
        r2 == peek(p1)
        \* a comparison operator of one or two characters
        cmpOp == consume(IF r2 = "=" THEN next(p1).p ELSE p1)
        cmpRight == ParseCall("parseFilterExpr", <<WithCursor(qp, cmpOp.p)>>)
        cmp == newCompareExpr(leftExpr, cmpRight.v, cmpOp.value)
        \* a logical operator: the same character twice
        logOp == consume(next(p1).p)
        logRight == ParseCall("parseFilterExpressions", <<WithCursor(qp, logOp.p)>>)
    IN  IF w.r \in {"<", "=", ">", "!"}
        THEN IF r2 # "=" /\ w.r = "=" THEN ParseErr(SyntaxError, WithCursor(qp, p1))
             ELSE IF cmpRight.err # NoErr THEN cmpRight
             ELSE IF leftExpr.t = "logicalExpr" THEN ParseErr(Panic, cmpRight.qp)
             ELSE IF cmp.err = Panic THEN ParseErr(Panic, cmpRight.qp)
             ELSE IF cmp.err # NoErr THEN ParseErr(SyntaxError, cmpRight.qp)
             ELSE ParseCall("parseFilterOpAndRightExpr", <<cmpRight.qp, cmp.v>>)
        ELSE IF w.r \in {"&", "|"}
             THEN IF r2 # w.r THEN ParseErr(SyntaxError, WithCursor(qp, p1))
                  ELSE IF logRight.err # NoErr THEN logRight
                  ELSE ParseCall("parseFilterOpAndRightExpr",
                                 <<logRight.qp, Rebalanced(leftExpr, logRight.v, logOp.value)>>)
        ELSE ParseRet(WithCursor(qp, w.p), leftExpr)

parseFilterExpressions(qp) ==
    LET w == peekConsumingAllWhitespaces(qp.p)
        negated == ParseCall("parseFilterExpr", <<WithCursor(qp, consumeNext(w.p).p)>>)
        plain == ParseCall("parseFilterExpr", <<WithCursor(qp, w.p)>>)
    IN  IF w.r = "!"
        THEN IF negated.err # NoErr THEN negated
             ELSE ParseCall("parseFilterOpAndRightExpr", <<negated.qp, newLogicalExpr(negated.v, NoValue, notOp)>>)
        ELSE IF plain.err # NoErr THEN plain
             ELSE ParseCall("parseFilterOpAndRightExpr", <<plain.qp, plain.v>>)

\* the loop of parseParenthesisExpr between the parentheses
parseParenthesisLoop(qp, allowMultiple, results) ==
    LET expr == ParseCall("parseFilterExpressions", <<qp>>)
        w == peekConsumingAllWhitespaces(expr.qp.p)
    IN  IF expr.err # NoErr THEN expr
        ELSE IF ~allowMultiple THEN ParseRet(expr.qp, Append(results, newParenExpr(expr.v)))
        ELSE IF w.r = ","
             THEN ParseCall("parseParenthesisLoop",
                            <<WithCursor(expr.qp, consumeNext(w.p).p), allowMultiple,
                              Append(results, expr.v)>>)
        ELSE IF w.r = ")" THEN ParseRet(WithCursor(expr.qp, w.p), Append(results, expr.v))
        ELSE ParseErr(SyntaxError, WithCursor(expr.qp, w.p))

parseParenthesisExpr(qp, allowMultiple) ==
    LET left == unwrapLeftDelimiter(qp.p, "(", TRUE)
        inner == ParseCall("parseParenthesisLoop", <<WithCursor(qp, left.p), allowMultiple, <<>>>>)
        right == unwrapRightDelimiter(inner.qp.p, ")", TRUE)
    IN  IF left.err # NoErr THEN ParseErr(SyntaxError, WithCursor(qp, left.p))
        ELSE IF inner.err # NoErr THEN result
        ELSE IF right.err # NoErr THEN ParseErr(SyntaxError, WithCursor(qp, right.p))
        ELSE ParseRet(WithCursor(inner.qp, right.p), inner.v)

\* v is the segment with the selector appended
parseSelector(qp, segment) ==
    LET w == peekConsumingAllWhitespaces(qp.p)
        q == parseQuote(w.p)
        expr == ParseCall("parseFilterExpressions", <<WithCursor(qp, consumeNext(w.p).p)>>)
        sel == newFilterSelector(expr.v)
        name == ParseCall("parseAlphaNumeric", <<WithCursor(qp, w.p)>>)
    IN  IF w.r \in {"\"", "'"}
        THEN IF q.err # NoErr THEN ParseErr(SyntaxError, WithCursor(qp, q.p))
             ELSE ParseRet(WithCursor(qp, q.p), append(segment, nameSelector(q.value)))
        ELSE IF w.r = "*"
             THEN ParseRet(WithCursor(qp, consumeNext(w.p).p), append(segment, wildcardSelector))
        ELSE IF StartsInteger(w.r) \/ w.r = ":"
             THEN ParseCall("parseIndexOrArraySliceSelector", <<WithCursor(qp, w.p), segment>>)
        ELSE IF w.r = "?"
             THEN IF expr.err # NoErr THEN expr
                  ELSE IF sel.err # NoErr THEN ParseErr(sel.err, expr.qp)
                  ELSE ParseRet(expr.qp, append(segment, sel.v))
        ELSE IF isAlphaNumeric(w.r)
             THEN IF name.err # NoErr THEN name
                  ELSE ParseRet(name.qp, append(segment, nameSelector(name.v)))
        ELSE ParseErr(SyntaxError, WithCursor(qp, w.p))

\* the loop of parseSquareSelectors between the brackets
parseSelectorList(qp, segment) ==
    LET s == ParseCall("parseSelector", <<qp, segment>>)
        w == peekConsumingAllWhitespaces(s.qp.p)
    IN  IF s.err # NoErr THEN s
        ELSE IF w.r = ","
             THEN ParseCall("parseSelectorList", <<WithCursor(s.qp, consumeNext(w.p).p), s.v>>)
        ELSE ParseRet(WithCursor(s.qp, w.p), s.v)

parseSquareSelectors(qp, segment) ==
    LET left == unwrapLeftDelimiter(qp.p, "[", TRUE)
        list == ParseCall("parseSelectorList", <<WithCursor(qp, left.p), segment>>)
        right == unwrapRightDelimiter(list.qp.p, "]", TRUE)
    IN  IF left.err # NoErr THEN ParseErr(SyntaxError, WithCursor(qp, left.p))
        ELSE IF list.err # NoErr THEN list
        ELSE IF right.err # NoErr THEN ParseErr(SyntaxError, WithCursor(list.qp, right.p))
        ELSE ParseRet(WithCursor(list.qp, right.p), list.v)

parseDot(qp) ==
    LET p1 == consumeNext(qp.p).p
        descends == peek(p1) = "."
        p2 == IF descends THEN consumeNext(p1).p ELSE p1
        segType == IF descends THEN descendantSegmentType ELSE childSegmentType
        r == peek(p2)
        square == ParseCall("parseSquareSelectors", <<WithCursor(qp, p2), Segment(segType, <<>>)>>)
        q == parseQuote(p2)
        name == ParseCall("parseAlphaNumeric", <<WithCursor(qp, p2)>>)
    IN  IF r = "["
        THEN IF segType # descendantSegmentType THEN ParseErr(SyntaxError, WithCursor(qp, p2))
             ELSE IF square.err # NoErr THEN square
             ELSE ParseRet(appendSegment(square.qp, square.v), NoValue)
        ELSE IF r = "*"
             THEN ParseRet(appendSegment(WithCursor(qp, consumeNext(p2).p),
                                         Segment(segType, <<wildcardSelector>>)), NoValue)
        ELSE IF r \in {"\"", "'"}
             THEN IF q.err # NoErr THEN ParseErr(SyntaxError, WithCursor(qp, q.p))
                  ELSE ParseRet(appendSegment(WithCursor(qp, q.p),
                                              Segment(segType, <<nameSelector(q.value)>>)), NoValue)
        ELSE IF isAlphaNumeric(r)
             THEN IF name.err # NoErr THEN name
                  ELSE ParseRet(appendSegment(name.qp, Segment(segType, <<nameSelector(name.v)>>)),
                                NoValue)
        ELSE ParseErr(SyntaxError, WithCursor(qp, p2))

parseSegment(qp) ==
    LET w == peekConsumingAllWhitespaces(qp.p)
        square == ParseCall("parseSquareSelectors", <<WithCursor(qp, w.p), Segment(childSegmentType, <<>>)>>)
        dot == ParseCall("parseDot", <<WithCursor(qp, w.p)>>)
    IN  IF w.r = "["
        THEN IF square.err # NoErr THEN square
             ELSE ParseCall("parseSegment", <<appendSegment(square.qp, square.v)>>)
        ELSE IF w.r = "."
             THEN IF dot.err # NoErr THEN dot ELSE ParseCall("parseSegment", <<dot.qp>>)
        ELSE ParseRet(WithCursor(qp, w.p), NoValue)

parseNodeIdentifier(qp, absDefaultContext) ==
    LET w == peekConsumingAllWhitespaces(qp.p)
        symbol ==
            IF w.r = rootNodeSymbol THEN rootNodeSymbol
            ELSE IF w.r = currentNodeSymbol THEN currentNodeSymbol
            ELSE IF absDefaultContext THEN rootNodeSymbol
            ELSE currentNodeSymbol
        p1 == IF w.r \in {rootNodeSymbol, currentNodeSymbol} THEN consumeNext(w.p).p ELSE w.p
    IN  ParseCall("parseSegment", <<[qp EXCEPT !.p = p1, !.nodeIdentifierSymbol = symbol, !.segments = <<>>]>>)

\* a variant of the loop that looks at the segment types only
isSingularQry_typesOnly(segments) ==
    \A i \in 1..Len(segments) : segments[i].segmentType # descendantSegmentType

\* the loop of parseInnerQuery over p.root.segments
RECURSIVE isSingularQry(_)
isSingularQry(segments) ==
    IF segments = <<>> THEN TRUE
    ELSE IF Head(segments).segmentType = descendantSegmentType
            \/ Len(Head(segments).selectors) # 1 THEN FALSE
    ELSE IF Head(segments).selectors[1].t \notin {"name", "index"} THEN FALSE
    ELSE isSingularQry(Tail(segments))

parseInnerQuery(name, absDefaultContext, innerParser_) ==
    LET r == ParseCall("parseNodeIdentifier", <<queryParser(name, innerParser_), absDefaultContext>>)
    IN  IF r.err # NoErr THEN r
        ELSE ParseRet([r.qp EXCEPT !.isSingular = isSingularQry(r.qp.segments)], NoValue)

\* queryParser.parse on a new queryParser
parse(query) ==
    IF Len(query) <= 0 THEN ParseErr(SyntaxError, newQueryParser)
    ELSE ParseCall("parseNodeIdentifier", <<WithCursor(newQueryParser, innerParser(query, 0, 0, 0)), TRUE>>)

(***************************************************************************)
(* The template parser.  A templateParser is its cursor p, the elements it *)
(* has collected, the default root of prefix-less queries and its query    *)
(* counter; a parse function returns the templateParser after it next to   *)
(* its Go result (err, v).                                                 *)
(***************************************************************************)
templateParser(p) == [p |-> p, templateElems |-> <<>>, absDefault |-> TRUE, tmplQryCnt |-> 0]
newTemplateParser == templateParser(dummyInnerParser)
nilTemplateElem == [t |-> "nil"]
TmplParseRet(tp, v) == [err |-> NoErr, tp |-> tp, v |-> v]
TmplParseErr(err, tp) == [err |-> err, tp |-> tp, v |-> nilTemplateElem]
AtCursor(tp, p) == [tp EXCEPT !.p = p]
appendElem(elems, elem) == IF elem = nilTemplateElem THEN elems ELSE Append(elems, elem)

parseQuotedTextElem(tp) ==
    LET q == parseQuote(tp.p)
    IN  IF q.err # NoErr THEN TmplParseErr(SyntaxError, AtCursor(tp, q.p))
        ELSE IF Len(q.value) > 0 THEN TmplParseRet(AtCursor(tp, q.p), textTemplateElem(q.value))
        ELSE TmplParseRet(AtCursor(tp, q.p), nilTemplateElem)

parseJsonPathElem(tp) ==
    LET qryParser ==
            ParseCall("parseInnerQuery",
                      <<"tmplQry-" \o ToString(tp.tmplQryCnt), tp.absDefault, tp.p>>)
        counted == [tp EXCEPT !.tmplQryCnt = tp.tmplQryCnt + 1, !.p = qryParser.qp.p]
    IN  IF qryParser.err # NoErr THEN TmplParseErr(qryParser.err, counted)
        ELSE TmplParseRet(counted, jsonpathTemplateElem(WithCursor(qryParser.qp, dummyInnerParser)))

RECURSIVE nextTimes(_, _)
nextTimes(p, n) == IF n = 0 THEN p ELSE nextTimes(next(p).p, n - 1)

parseRangeHeader(tp) ==
    LET c == consume(nextTimes(tp.p, Len("range")))
        qryElem == parseJsonPathElem(AtCursor(tp, c.p))
    IN  IF c.value # "range" THEN TmplParseErr(Panic, AtCursor(tp, c.p))
        ELSE IF qryElem.err # NoErr THEN qryElem
        ELSE TmplParseRet(qryElem.tp, rangeTemplateElem(qryElem.v.qryParser, <<>>))

parseRangeEnd(tp) ==
    LET c == consume(nextTimes(tp.p, Len("end")))
    IN  IF c.value # "end" THEN TmplParseErr(Panic, AtCursor(tp, c.p))
        ELSE TmplParseRet(AtCursor(tp, c.p), nilTemplateElem)

unwrapTemplateElemDelimiters(tp, parseElem) ==
    LET left == unwrapLeftDelimiter(tp.p, "{", TRUE)
        content == ParseCall(parseElem, <<AtCursor(tp, left.p)>>)
        right == unwrapRightDelimiter(content.tp.p, "}", TRUE)
    IN  IF left.err # NoErr THEN TmplParseErr(SyntaxError, AtCursor(tp, left.p))
        ELSE IF content.err # NoErr THEN content
        ELSE IF right.err # NoErr THEN TmplParseErr(SyntaxError, AtCursor(content.tp, right.p))
        ELSE TmplParseRet(AtCursor(content.tp, right.p), content.v)

\* a variant of parseCurlyTemplateElem that skips an 'end' element
parseCurlyTemplateElem_skippingEnd(tp) ==
    IF rangeTmplElemStartRegexp(tp.p) THEN ParseCall("parseRangeEndOp", <<tp>>)
    ELSE IF rangeTmplElemEndRegexp(tp.p)
         THEN ParseCall("unwrapTemplateElemDelimiters", <<tp, "parseRangeEnd">>)
    ELSE IF quotedElemStartRegexp(tp.p)
         THEN ParseCall("unwrapTemplateElemDelimiters", <<tp, "parseQuotedTextElem">>)
    ELSE IF jpElemStartRegexp(tp.p)
         THEN ParseCall("unwrapTemplateElemDelimiters", <<tp, "parseJsonPathElem">>)
    ELSE TmplParseErr(SyntaxError, tp)

parseCurlyTemplateElem(tp) ==
    IF rangeTmplElemStartRegexp(tp.p) THEN ParseCall("parseRangeEndOp", <<tp>>)
    ELSE IF quotedElemStartRegexp(tp.p)
         THEN ParseCall("unwrapTemplateElemDelimiters", <<tp, "parseQuotedTextElem">>)
    ELSE IF jpElemStartRegexp(tp.p)
         THEN ParseCall("unwrapTemplateElemDelimiters", <<tp, "parseJsonPathElem">>)
    ELSE TmplParseErr(SyntaxError, tp)

\* the loop of parseRangeEndOp over the range's body; v is the range
\* element with the body's elements appended.  A quoted text of no
\* characters is appended as the nil element it is returned as.
parseRangeBody(tp, range) ==
    LET r == peek(tp.p)
        c == consume(tp.p)
        textElem == parseQuotedTextElem(AtCursor(tp, c.p))
        withText ==
            IF Len(c.value) > 0
            THEN [range EXCEPT !.elems = Append(range.elems, textTemplateElem(c.value))]
            ELSE range
        end == ParseCall("unwrapTemplateElemDelimiters", <<AtCursor(tp, c.p), "parseRangeEnd">>)
        elem == ParseCall("parseCurlyTemplateElem", <<AtCursor(tp, c.p)>>)
    IN  IF r \in {"\"", "'"}
        THEN IF Len(c.value) > 0 THEN TmplParseErr(SyntaxError, AtCursor(tp, c.p))
             ELSE IF textElem.err # NoErr THEN textElem
             ELSE ParseCall("parseRangeBody",
                           <<textElem.tp, [range EXCEPT !.elems = Append(range.elems, textElem.v)]>>)
        ELSE IF r = "{"
             THEN IF rangeTmplElemEndRegexp(c.p)
                  THEN IF end.err # NoErr THEN end ELSE TmplParseRet(end.tp, withText)
                  ELSE IF elem.err # NoErr THEN elem
                  ELSE ParseCall("parseRangeBody",
                                <<elem.tp,
                                  [withText EXCEPT !.elems = appendElem(withText.elems, elem.v)]>>)
        ELSE IF r = eof THEN TmplParseErr(SyntaxError, tp)
        ELSE ParseCall("parseRangeBody", <<AtCursor(tp, next(tp.p).p), range>>)

\* a variant of parseRangeEndOp that leaves absDefault as the body had it
parseRangeEndOp_notRestoring(tp) ==
    LET unwrappedContent == ParseCall("unwrapTemplateElemDelimiters", <<tp, "parseRangeHeader">>)
        body == ParseCall("parseRangeBody",
                         <<[unwrappedContent.tp EXCEPT !.absDefault = FALSE], unwrappedContent.v>>)
    IN  IF unwrappedContent.err # NoErr THEN unwrappedContent ELSE body

parseRangeEndOp(tp) ==
    LET unwrappedContent == ParseCall("unwrapTemplateElemDelimiters", <<tp, "parseRangeHeader">>)
        oldAbsDefault == unwrappedContent.tp.absDefault
        body == ParseCall("parseRangeBody",
                         <<[unwrappedContent.tp EXCEPT !.absDefault = FALSE], unwrappedContent.v>>)
    IN  IF unwrappedContent.err # NoErr THEN unwrappedContent
        ELSE IF body.err # NoErr THEN body
        ELSE TmplParseRet([body.tp EXCEPT !.absDefault = oldAbsDefault], body.v)

\* the loop of parseTemplateElems
parseTemplateElems(tp) ==
    LET r == peek(tp.p)
        c == consume(tp.p)
        textElem == parseQuotedTextElem(AtCursor(tp, c.p))
        withText ==
            IF Len(c.value) > 0
            THEN [tp EXCEPT !.p = c.p, !.templateElems = Append(tp.templateElems, textTemplateElem(c.value))]
            ELSE AtCursor(tp, c.p)
        elem == ParseCall("parseCurlyTemplateElem", <<withText>>)
    IN  IF r \in {"\"", "'"}
        THEN IF Len(c.value) > 0 THEN TmplParseErr(SyntaxError, AtCursor(tp, c.p))
             ELSE IF textElem.err # NoErr THEN textElem
             ELSE ParseCall("parseTemplateElems",
                           <<[textElem.tp EXCEPT
                                 !.templateElems = appendElem(tp.templateElems, textElem.v)]>>)
        ELSE IF r = "{"
             THEN IF elem.err # NoErr THEN elem
                  ELSE ParseCall("parseTemplateElems",
                                <<[elem.tp EXCEPT
                                      !.templateElems = appendElem(elem.tp.templateElems, elem.v)]>>)
        ELSE IF r = eof THEN TmplParseRet(withText, nilTemplateElem)
        ELSE ParseCall("parseTemplateElems", <<AtCursor(tp, next(tp.p).p)>>)

\* templateParser.parse on a new templateParser, as JSONPath.parse calls it
parseTemplate(template) ==
    ParseCall("parseTemplateElems", <<AtCursor(newTemplateParser, innerParser(template, 0, 0, 0))>>)

ParseCall(f, a) ==
    CASE f = "parseAlphaNumeric" -> parseAlphaNumeric(a[1])
      [] f = "parseNumberLiteral" -> parseNumberLiteral(a[1])
      [] f = "parseArraySliceValues" -> parseArraySliceValues(a[1], a[2])
      [] f = "parseIndexOrArraySliceSelector" -> parseIndexOrArraySliceSelector(a[1], a[2])
      [] f = "parseFilterQryExpr" -> parseFilterQryExpr(a[1])
      [] f = "parseTextExpr" -> parseTextExpr(a[1])
      [] f = "parseFilterExpr" -> parseFilterExpr(a[1])
      [] f = "parseFilterOpAndRightExpr" -> parseFilterOpAndRightExpr(a[1], a[2])
      [] f = "parseFilterExpressions" -> parseFilterExpressions(a[1])
      [] f = "parseParenthesisLoop" -> parseParenthesisLoop(a[1], a[2], a[3])
      [] f = "parseParenthesisExpr" -> parseParenthesisExpr(a[1], a[2])
      [] f = "parseSelector" -> parseSelector(a[1], a[2])
      [] f = "parseSelectorList" -> parseSelectorList(a[1], a[2])
      [] f = "parseSquareSelectors" -> parseSquareSelectors(a[1], a[2])
      [] f = "parseDot" -> parseDot(a[1])
      [] f = "parseSegment" -> parseSegment(a[1])
      [] f = "parseNodeIdentifier" -> parseNodeIdentifier(a[1], a[2])
      [] f = "parseInnerQuery" -> parseInnerQuery(a[1], a[2], a[3])
      [] f = "parseQuotedTextElem" -> parseQuotedTextElem(a[1])
      [] f = "parseJsonPathElem" -> parseJsonPathElem(a[1])
      [] f = "parseRangeHeader" -> parseRangeHeader(a[1])
      [] f = "parseRangeEnd" -> parseRangeEnd(a[1])
      [] f = "unwrapTemplateElemDelimiters" -> unwrapTemplateElemDelimiters(a[1], a[2])
      [] f = "parseCurlyTemplateElem" -> parseCurlyTemplateElem(a[1])
      [] f = "parseRangeBody" -> parseRangeBody(a[1], a[2])
      [] f = "parseRangeEndOp" -> parseRangeEndOp(a[1])
      [] f = "parseTemplateElems" -> parseTemplateElems(a[1])

(***************************************************************************)
(* The string methods of the AST, which print a parsed query.              *)
(***************************************************************************)
RECURSIVE StringCall(_, _)

RECURSIVE Concat(_)
Concat(texts) == IF texts = <<>> THEN "" ELSE Head(texts) \o Concat(Tail(texts))

\* strconv.Quote of a text of printable ASCII characters
RECURSIVE QuoteChars(_)
QuoteChars(s) ==
    IF Len(s) = 0 THEN ""
    ELSE (IF CharAt(s, 0) \in {"\\", "\""} THEN "\\" ELSE "") \o CharAt(s, 0)
             \o QuoteChars(SubSeq(s, 2, Len(s)))
strconvQuote(s) == "\"" \o QuoteChars(s) \o "\""

\* fmt.Sprintf("%e") of a number of halves below a million
RECURSIVE Zeros(_)
Zeros(n) == IF n <= 0 THEN "" ELSE "0" \o Zeros(n - 1)
FormatE(h) ==
    LET a == IF h < 0 THEN 0 - h ELSE h
        sign == IF h < 0 THEN "-" ELSE ""
        w == ToString(a \div 2)
        frac == SubSeq(w, 2, Len(w)) \o (IF a % 2 = 1 THEN "5" ELSE "")
    IN  IF a = 0 THEN "0.000000e+00"
        ELSE IF a = 1 THEN sign \o "5.000000e-01"
        ELSE sign \o SubSeq(w, 1, 1) \o "." \o frac \o Zeros(6 - Len(frac))
                 \o "e+0" \o ToString(Len(w) - 1)

\* fmt.Sprintf("%t")
FormatBool(b) == IF b THEN "true" ELSE "false"

\* the texts in seq with a comma between them
RECURSIVE JoinComma(_)
JoinComma(texts) ==
    IF texts = <<>> THEN ""
    ELSE IF Len(texts) = 1 THEN texts[1]
    ELSE texts[1] \o "," \o JoinComma(Tail(texts))

filterExprString(expr) ==
    CASE expr.t = "filterQry" ->
             "{evalExistenceOnly=" \o FormatBool(expr.evalExistenceOnly) \o "}"
                 \o StringCall("queryParserString", expr.parser)
      [] expr.t = "functionExpr" ->
             expr.fct \o "("
                 \o JoinComma([i \in 1..Len(expr.args) |->
                                  StringCall("filterExprString", expr.args[i])]) \o ")"
      [] expr.t = "logicalExpr" ->
             IF expr.logicalOp = notOp
             THEN expr.logicalOp \o StringCall("filterExprString", expr.left)
             ELSE StringCall("filterExprString", expr.left) \o expr.logicalOp
                      \o StringCall("filterExprString", expr.right)
      [] expr.t = "compareExpr" ->
             StringCall("filterExprString", expr.left) \o expr.compareOp
                 \o StringCall("filterExprString", expr.right)
      [] expr.t = "parenExpr" -> "(" \o StringCall("filterExprString", expr.inner) \o ")"
      [] expr.t = "stringLiteral" -> strconvQuote(expr.val.v)
      [] expr.t = "intLiteral" -> ToString(expr.val.v)
      [] expr.t = "floatLiteral" -> FormatE(expr.val.v)
      [] expr.t = "boolLiteral" -> FormatBool(expr.val.v)
      [] expr.t = "nullLiteral" -> "null"

selectorString(sel) ==
    CASE sel.t = "wildcard" -> "*"
      [] sel.t = "name" -> strconvQuote(sel.name)
      [] sel.t = "index" -> ToString(sel.index)
      [] sel.t = "slice" ->
             (IF sel.start.isDefined THEN ToString(sel.start.intValue) ELSE "") \o ":"
                 \o (IF sel.end.isDefined THEN ToString(sel.end.intValue) ELSE "") \o ":"
                 \o ToString(sel.step)
      [] sel.t = "filter" -> "?" \o StringCall("filterExprString", sel.expr)

segmentString(segment) ==
    (IF segment.segmentType = descendantSegmentType THEN ".." ELSE "") \o "["
        \o JoinComma([i \in 1..Len(segment.selectors) |-> selectorString(segment.selectors[i])])
        \o "]"

\* nodeIdentifier.string of the root of a queryParser
nodeIdentifierString(qp) ==
    qp.nodeIdentifierSymbol
        \o Concat([i \in 1..Len(qp.segments) |-> segmentString(qp.segments[i])])

queryParserString(qp) ==
    "{name=" \o qp.name \o ",singular=" \o FormatBool(qp.isSingular) \o "}"
        \o nodeIdentifierString(qp)

StringCall(f, a) ==
    CASE f = "filterExprString" -> filterExprString(a)
      [] f = "queryParserString" -> queryParserString(a)

(***************************************************************************)
(* The JSONPath object.  Its parser field is nil or points to the          *)
(* templateParser of the most recent Parse call.  An Execute call has the  *)
(* template elements it runs, the position of the next one, its own writer *)
(* and its error.                                                          *)
(***************************************************************************)
NilParser == [isNil |-> TRUE, tp |-> newTemplateParser]
PointerTo(tp) == [isNil |-> FALSE, tp |-> tp]
NotParsed == [made |-> FALSE, text |-> "", err |-> NoErr]
Parsed(text, err) == [made |-> TRUE, text |-> text, err |-> err]

\* New(name): no parser yet
NewObject ==
    /\ jParser = NilParser
    /\ executions = <<>>
    /\ lastParse = NotParsed

\* an Execute call: the next template element, the writer and the return
Execution(pos, wr, err, done) == [pos |-> pos, wr |-> wr, err |-> err, done |-> done]

\* JSONPath.Execute up to the loop of executeTemplate
JSONPath_Execute(p) ==
    IF p.isNil THEN Execution(1, <<>>, ExecutionError, TRUE)
    ELSE Execution(1, <<>>, NoErr, FALSE)

\* a variant of the loop body that starts each element on an empty writer
executeTemplateStep_emptyWriter(p, e, rootDataNode, allow) ==
    IF e.pos > Len(p.tp.templateElems) THEN [e EXCEPT !.done = TRUE]
    ELSE LET r == Call("execTmplElem", <<tmplExecCtxt(rootDataNode, allow),
                                         p.tp.templateElems[e.pos], rootDataNode, <<>> >>)
         IN  IF r.err # NoErr THEN Execution(e.pos, r.out, r.err, TRUE)
             ELSE Execution(e.pos + 1, r.out, NoErr, FALSE)

\* one round of the loop of executeTemplate: the next element is executed
\* on the call's writer, and the call returns at an error or at the end
executeTemplateStep(p, e, rootDataNode, allow) ==
    IF e.pos > Len(p.tp.templateElems) THEN [e EXCEPT !.done = TRUE]
    ELSE LET r == Call("execTmplElem", <<tmplExecCtxt(rootDataNode, allow),
                                         p.tp.templateElems[e.pos], rootDataNode, e.wr>>)
         IN  IF r.err # NoErr THEN Execution(e.pos, r.out, r.err, TRUE)
             ELSE Execution(e.pos + 1, r.out, NoErr, FALSE)

\* the rounds of the loop from e on, until the call returns
RECURSIVE executeTemplateFrom(_, _, _, _)
executeTemplateFrom(p, e, rootDataNode, allow) ==
    IF e.done THEN e
    ELSE executeTemplateFrom(p, executeTemplateStep(p, e, rootDataNode, allow), rootDataNode, allow)

(***************************************************************************)
(* Bounds and the inputs drawn from them                                   *)
(***************************************************************************)
\* the longest array of the tree inputs
MaxLen == 2
\* the largest magnitude of an index selector
MaxIndex == 2

Keys == {"a", "b"}
Leaves == {Null, IntV(1), StrV("x")}

SeqsUpTo(S, n) == UNION {[1..m -> S] : m \in 0..n}
Arrays(S, n) == {ArrV(elems) : elems \in SeqsUpTo(S, n)}
\* the maps over Keys with values in S, in every enumeration order
Maps(S) ==
    {MapV(<<>>)}
        \cup {MapV(<<Entry(key, val)>>) : key \in Keys, val \in S}
        \cup {MapV(<<Entry(e[1], e[3]), Entry(e[2], e[4])>>) :
                e \in {x \in Keys \X Keys \X S \X S : x[1] # x[2]}}

\* the children of the deeper inputs: leaves, small containers and maps
\* whose member "a" is itself a map
Kids ==
    Leaves \cup {ArrV(<<IntV(1)>>),
                 StructV(<<Entry("a", IntV(1))>>),
                 MapV(<<Entry("a", IntV(1))>>), MapV(<<Entry("a", Null)>>),
                 MapV(<<Entry("b", StrV("x"))>>),
                 MapV(<<Entry("a", MapV(<<Entry("b", IntV(1))>>))>>),
                 MapV(<<Entry("a", MapV(<<>>))>>)}

Inputs ==
    Leaves \cup Arrays(Leaves, MaxLen) \cup Maps(Leaves)
        \cup Arrays(Kids, MaxLen) \cup Maps(Kids)
        \cup {StructV(<<Entry("a", StrV("x")), Entry("b", Null)>>),
              StructV(<<Entry("b", StructV(<<Entry("a", IntV(1))>>))>>)}

\* a Name or Index selector
PathSelectors ==
    {nameSelector(name) : name \in Keys}
        \cup {indexSelector(i) : i \in (0 - MaxIndex)..MaxIndex}

\* the singular queries of one or two child segments
PathQueries ==
    {Query(rootNodeSymbol, <<Child(s)>>) : s \in PathSelectors}
        \cup {Query(rootNodeSymbol, <<Child(s1), Child(s2)>>) :
                s1 \in PathSelectors,
                s2 \in {nameSelector("a"), nameSelector("b"), indexSelector(0), indexSelector(-1)}}

\* slice selectors for the descendant queries
SliceSamples ==
    {arraySliceSelector(undefinedOptionalInt, undefinedOptionalInt, 1),
     arraySliceSelector(optionalInt(TRUE, 1), undefinedOptionalInt, 1),
     arraySliceSelector(optionalInt(TRUE, 0), optionalInt(TRUE, 1), 1),
     arraySliceSelector(undefinedOptionalInt, undefinedOptionalInt, -1),
     arraySliceSelector(optionalInt(TRUE, -1), optionalInt(TRUE, 5), 2),
     arraySliceSelector(undefinedOptionalInt, undefinedOptionalInt, 0)}

\* queries made of descendant segments only
DescendQueries ==
    {Query(rootNodeSymbol, <<Desc(s)>>) : s \in PathSelectors \cup SliceSamples}
        \cup {Query(rootNodeSymbol, <<Segment(descendantSegmentType, <<s1, s2>>)>>) :
                s1 \in {nameSelector("a"), indexSelector(1)},
                s2 \in {nameSelector("b"), indexSelector(0)}}
        \cup {Query(rootNodeSymbol, <<Desc(s1), Desc(s2)>>) :
                s1 \in {nameSelector("a"), indexSelector(0)},
                s2 \in {nameSelector("b"), indexSelector(-1)}}

\* relative singular sub-queries of a filter
SubQueries ==
    {Query(currentNodeSymbol, <<Child(nameSelector("a"))>>),
     Query(currentNodeSymbol, <<Child(nameSelector("b"))>>),
     Query(currentNodeSymbol, <<Child(indexSelector(0))>>),
     Query(currentNodeSymbol, <<Child(nameSelector("a")), Child(nameSelector("b"))>>)}

\* a filter that tests the existence of the sub-query's result, and one
\* that compares it with a literal
ExistenceFilter(sub) == filterSelector(filterQry(TRUE, sub))
CompareFilter(sub, lit) == filterSelector(compareExpr(filterQry(FALSE, sub), eqOp, lit))
FilterLiterals == {intLiteral(1), stringLiteral("x")}
Filters ==
    {ExistenceFilter(sub) : sub \in SubQueries}
        \cup {CompareFilter(sub, lit) : sub \in SubQueries, lit \in FilterLiterals}

\* one filter in a child or in a descendant segment
FilterQueries ==
    {Query(rootNodeSymbol, <<Segment(type, <<f>>)>>) :
        type \in {childSegmentType, descendantSegmentType}, f \in Filters}

Queries == PathQueries \cup DescendQueries \cup FilterQueries

\* the arrays and slice selectors of the slice specification: arrays
\* <<0, 1, ..>> of every length up to MaxSliceLen, bounds absent or within
\* MaxSliceIndex of zero, steps within MaxStep of zero
MaxSliceLen == 3
MaxSliceIndex == 5
MaxStep == 2

SliceArrays == {ArrV([i \in 1..n |-> IntV(i - 1)]) : n \in 0..MaxSliceLen}
SliceBounds ==
    {undefinedOptionalInt} \cup {optionalInt(TRUE, i) : i \in (0 - MaxSliceIndex)..MaxSliceIndex}
SliceSelectors ==
    {arraySliceSelector(start, end, step) :
        start \in SliceBounds, end \in SliceBounds, step \in (0 - MaxStep)..MaxStep}
SliceQueries == {Query(rootNodeSymbol, <<Child(sel)>>) : sel \in SliceSelectors}

\* the operands of the comparison specification: leaves of every kind,
\* arrays up to MaxCmpLen, maps (map[string]interface{}, as JSON decoding
\* yields) in every enumeration order, structs, and the absent operand
MaxCmpLen == 2

Missing == [k |-> "missing", v |-> 0]
CmpElems == {Null, IntV(0), IntV(1)}
CmpLeaves ==
    {Null, BoolV(FALSE), BoolV(TRUE), IntV(0), IntV(1), UintV(1), FloatV(2),
     StrV(""), StrV("x"), StrV("1")}
CmpArrays == Arrays(CmpElems, MaxCmpLen) \cup {ArrV(<<ArrV(<<IntV(1)>>)>>), ArrV(<<ArrV(<<>>)>>)}
CmpMaps ==
    Maps(CmpElems) \cup {MapV(<<Entry("a", StrV(""))>>), MapV(<<Entry("a", BoolV(FALSE))>>)}
CmpStructs ==
    {StructV(<<>>), StructV(<<Entry("a", IntV(1))>>),
     StructV(<<Entry("a", IntV(1)), Entry("b", IntV(0))>>)}
Operands == CmpLeaves \cup CmpArrays \cup CmpMaps \cup CmpStructs \cup {Missing}

\* the member key -> operand of the element the filter runs on
OperandEntries(key, operand) == IF operand = Missing THEN <<>> ELSE <<Entry(key, operand)>>
CompareInputs ==
    {ArrV(<<MapV(OperandEntries("a", l) \o OperandEntries("b", r))>>) :
        l \in Operands, r \in Operands}

\* $[?@.a op @.b], $[?@.a op null] and $[?null op @.b]
MemberQry(key) == filterQry(FALSE, Query(currentNodeSymbol, <<Child(nameSelector(key))>>))
CompareQueries ==
    {Query(rootNodeSymbol, <<Child(filterSelector(compareExpr(sides[1], op, sides[2])))>>) :
        op \in CompareOps,
        sides \in {<<MemberQry("a"), MemberQry("b")>>, <<MemberQry("a"), nullLiteral>>,
                   <<nullLiteral, MemberQry("b")>>}}

\* templates: a text and a query with a comparing filter in a child segment
FilterTemplates ==
    {<<textTemplateElem("items: "),
       jsonpathTemplateElem(Query(rootNodeSymbol, <<Child(CompareFilter(sub, lit))>>))>> :
        sub \in SubQueries, lit \in FilterLiterals}

Templates == FilterTemplates

(***************************************************************************)
(* The state machine: an input tree and the allowMissingKeys setting are   *)
(* fixed, and queries and templates are executed on them.                  *)
(***************************************************************************)
NoCall == [op |-> "none"]
QueryCall(q) == [op |-> "executeQuery", query |-> q]
TemplateCall(templateElems) == [op |-> "Execute", templateElems |-> templateElems]
NoResult == NilResult

Init ==
    /\ input \in Inputs
    /\ allowMissingKeys \in BOOLEAN
    /\ call = NoCall
    /\ result = NoResult
    /\ NewObject

\* executeQuery as execJPTmpl calls it: existence-only off, root and
\* current node both the input
ExecuteQuery(q) ==
    /\ call = NoCall
    /\ call' = QueryCall(q)
    /\ result' = executeQuery(q, Ref(<<>>, input), Ref(<<>>, input), FALSE, allowMissingKeys)
    /\ UNCHANGED <<input, allowMissingKeys, object>>

\* JSONPath.Execute of a parsed template: executeTemplate on the input
ExecuteTemplate(templateElems) ==
    /\ call = NoCall
    /\ call' = TemplateCall(templateElems)
    /\ result' = executeTemplate(templateElems, Ref(<<>>, input), allowMissingKeys)
    /\ UNCHANGED <<input, allowMissingKeys, object>>

\* the caller drops the result and is free to make the next call
Return ==
    /\ call # NoCall
    /\ call' = NoCall
    /\ result' = NoResult
    /\ UNCHANGED <<input, allowMissingKeys, object>>

Next ==
    \/ \E q \in Queries : ExecuteQuery(q)
    \/ \E t \in Templates : ExecuteTemplate(t)
    \/ Return

Spec == Init /\ [][Next]_vars

\* the slice specification: one slice selector applied to an array
InitSlice ==
    /\ input \in SliceArrays
    /\ allowMissingKeys \in BOOLEAN
    /\ call = NoCall
    /\ result = NoResult
    /\ NewObject

NextSlice ==
    \/ \E q \in SliceQueries : ExecuteQuery(q)
    \/ Return

SpecSlice == InitSlice /\ [][NextSlice]_vars

\* the comparison specification: one comparison of two operands, evaluated
\* as the filter of a query
InitCompare ==
    /\ input \in CompareInputs
    /\ allowMissingKeys \in BOOLEAN
    /\ call = NoCall
    /\ result = NoResult
    /\ NewObject

NextCompare ==
    \/ \E q \in CompareQueries : ExecuteQuery(q)
    \/ Return

SpecCompare == InitCompare /\ [][NextCompare]_vars

\* the operand specification: a comparison one of whose operands is a
\* sub-query or a function call, evaluated on every element of an array.
\* The elements are leaves, a map and arrays up to MaxOperandLen.
MaxOperandLen == 2

OperandKids ==
    Arrays({IntV(1), StrV("x")}, MaxOperandLen)
        \cup {IntV(1), MapV(<<Entry("a", IntV(1)), Entry("b", StrV("x"))>>)}
OperandInputs == {ArrV(elems) : elems \in SeqsUpTo(OperandKids, 2) \ {<<>>}}

\* @[*], @[0] and @..[*]
OperandSubQueries ==
    {Query(currentNodeSymbol, <<Child(wildcardSelector)>>),
     Query(currentNodeSymbol, <<Child(indexSelector(0))>>),
     Query(currentNodeSymbol, <<Desc(wildcardSelector)>>)}
\* the sub-query itself, or a function called on it
OperandExprs ==
    {filterQry(FALSE, sub) : sub \in OperandSubQueries}
        \cup {functionExpr(fct, <<filterQry(FALSE, sub)>>) :
                fct \in newFunctionRegistry, sub \in OperandSubQueries}
OperandQueries ==
    {Query(rootNodeSymbol, <<Child(filterSelector(compareExpr(sides[1], op, sides[2])))>>) :
        op \in {eqOp, ltOp},
        sides \in {<<e, intLiteral(1)>> : e \in OperandExprs}
                    \cup {<<intLiteral(1), e>> : e \in OperandExprs}}

InitOperand ==
    /\ input \in OperandInputs
    /\ allowMissingKeys \in BOOLEAN
    /\ call = NoCall
    /\ result = NoResult
    /\ NewObject

NextOperand ==
    \/ \E q \in OperandQueries : ExecuteQuery(q)
    \/ Return

SpecOperand == InitOperand /\ [][NextOperand]_vars

(***************************************************************************)
(* Query texts for the parser: comparisons of two operands, chains of two  *)
(* comparisons, and paths of up to MaxSegments segments.                   *)
(***************************************************************************)
SingularOperandTexts == {"@.a", ".'persons'[0].'firstName'", "$['a']", "@[0]"}
NonSingularOperandTexts ==
    {".'persons'.*", "@[*]", "@[0:1]", "@[?@.a]", "@['a','b']", "@..a", "@[0,1]"}
LiteralOperandTexts == {"'abc'", "1", "true", "null"}
OperandTexts == SingularOperandTexts \cup NonSingularOperandTexts \cup LiteralOperandTexts
CompareOpTexts == {"==", "<=", ">"}
CmpText(l, op, r) == "$[?" \o l \o " " \o op \o " " \o r \o "]"
ComparisonTexts == {CmpText(l, op, r) : l \in OperandTexts, op \in CompareOpTexts, r \in OperandTexts}

ChainOperandTexts == {"@.a", "1", "'abc'", "true"}
ChainText(a, op1, b, op2, c) ==
    "$[?" \o a \o " " \o op1 \o " " \o b \o " " \o op2 \o " " \o c \o "]"
ChainTexts ==
    {ChainText(a, op1, b, op2, c) :
        a \in {"@.a", "1"}, op1 \in CompareOps, b \in ChainOperandTexts,
        op2 \in CompareOps, c \in {"true", "@.b"}}

MaxSegments == 2
SingularSegmentTexts == {".a", "['a']", "[0]", ".'b'", "[-1]"}
OtherSegmentTexts == {".*", "[*]", "..a", "..[0]", "[0,1]", "['a','b']", "[1:2]", "[?@.a]", "[?@.a == 1]"}
SegmentTexts == SingularSegmentTexts \cup OtherSegmentTexts
PathTexts ==
    {sym \o Concat(segs) : sym \in {"$", "@", ""}, segs \in SeqsUpTo(SegmentTexts, MaxSegments)}

BrokenTexts == {"", "$[", "$.", "$[?]", "$['a'", "$[?@.a ==]", "$[?@.a = 1]", "$[?@.a & @.b]", "$.[0]"}
QueryTexts == ComparisonTexts \cup ChainTexts \cup PathTexts \cup BrokenTexts

ParseQueryCall(text) == [op |-> "parse", text |-> text]

InitParseQuery ==
    /\ input = Null
    /\ allowMissingKeys = FALSE
    /\ call = NoCall
    /\ result = NoResult
    /\ NewObject

\* queryParser.parse of a query text on a new queryParser
ParseQuery(text) ==
    /\ call = NoCall
    /\ call' = ParseQueryCall(text)
    /\ result' = parse(text)
    /\ UNCHANGED <<input, allowMissingKeys, object>>

NextParseQuery ==
    \/ \E text \in QueryTexts : ParseQuery(text)
    \/ Return

SpecParseQuery == InitParseQuery /\ [][NextParseQuery]_vars

(***************************************************************************)
(* Filter texts for operator precedence: up to MaxAtoms existence tests    *)
(* @.a, @.b, ... each with or without '!', joined by '&&' and '||', with   *)
(* at most one pair of neighbours in parentheses.  The input is an array   *)
(* holding one map; the keys it has are the truth assignment.              *)
(***************************************************************************)
MaxAtoms == 3
AtomKeys == <<"a", "b", "c", "d">>
LogicalShapes ==
    UNION {{s \in [negs : [1..n -> BOOLEAN], ops : [1..(n - 1) -> {andOp, orOp}],
                   paren : 0..(n - 1), parenNeg : BOOLEAN] : s.parenNeg => s.paren > 0}
           : n \in 2..MaxAtoms}

AtomText(s, i) == (IF s.negs[i] THEN "!" ELSE "") \o "@." \o AtomKeys[i]
RECURSIVE ShapeText(_, _)
ShapeText(s, i) ==
    LET sep == IF i = 1 THEN "" ELSE " " \o s.ops[i - 1] \o " "
    IN  IF i > Len(s.negs) THEN ""
        ELSE IF s.paren = i
             THEN sep \o (IF s.parenNeg THEN "!" ELSE "") \o "(" \o AtomText(s, i) \o " " \o s.ops[i]
                      \o " " \o AtomText(s, i + 1) \o ")" \o ShapeText(s, i + 2)
        ELSE sep \o AtomText(s, i) \o ShapeText(s, i + 1)
LogicalText(s) == "$[?" \o ShapeText(s, 1) \o "]"

KeySets == SUBSET {AtomKeys[i] : i \in 1..MaxAtoms}
AssignmentInput(keys) ==
    ArrV(<<MapV([i \in 1..Cardinality(keys) |->
                    Entry(SelectSeq(AtomKeys, LAMBDA k : k \in keys)[i], IntV(1))])>>)
PrecedenceInputs == {AssignmentInput(keys) : keys \in KeySets}

\* the call keeps the shape its text was written from
ParseAndExecuteCall(s) == [op |-> "parseAndExecute", text |-> LogicalText(s), shape |-> s]

InitPrecedence ==
    /\ input \in PrecedenceInputs
    /\ allowMissingKeys = TRUE
    /\ call = NoCall
    /\ result = NoResult
    /\ NewObject

\* queryParser.parse of a query text, then executeQuery of the parsed query
\* on the input
ParseAndExecuteQuery(s) ==
    /\ call = NoCall
    /\ call' = ParseAndExecuteCall(s)
    /\ result' =
           LET parsed == parse(LogicalText(s))
           IN  IF parsed.err # NoErr THEN Failed(parsed.err)
               ELSE executeQuery(parsed.qp, Ref(<<>>, input), Ref(<<>>, input), FALSE,
                                 allowMissingKeys)
    /\ UNCHANGED <<input, allowMissingKeys, object>>

NextPrecedence ==
    \/ \E s \in LogicalShapes : ParseAndExecuteQuery(s)
    \/ Return

SpecPrecedence == InitPrecedence /\ [][NextPrecedence]_vars

(***************************************************************************)
(* Template texts for the parser: up to MaxTokens template elements, each  *)
(* a text, a query, a query with a filter sub-query, a range opener or an  *)
(* 'end'.  All queries are without a '$' or '@' prefix.                    *)
(***************************************************************************)
MaxTokens == 4
TokenText(token) ==
    CASE token = "T" -> "-"
      [] token = "Q" -> "{.a}"
      [] token = "F" -> "{ .b[?.c] }"
      [] token = "R" -> "{range .items[*]}"
      [] token = "E" -> "{ end }"
Tokens == {"T", "Q", "F", "R", "E"}
TokenSeqs == SeqsUpTo(Tokens, MaxTokens)
TemplateText(tokens) == Concat([i \in 1..Len(tokens) |-> TokenText(tokens[i])])

ParseTemplateCall(tokens) == [op |-> "Parse", text |-> TemplateText(tokens), tokens |-> tokens]

\* JSONPath.Parse of a template text
ParseTemplate(tokens) ==
    /\ call = NoCall
    /\ call' = ParseTemplateCall(tokens)
    /\ result' = parseTemplate(TemplateText(tokens))
    /\ UNCHANGED <<input, allowMissingKeys, object>>

NextParseTemplate ==
    \/ \E tokens \in TokenSeqs : ParseTemplate(tokens)
    \/ Return

SpecParseTemplate == InitParseQuery /\ [][NextParseTemplate]_vars

(***************************************************************************)
(* Range templates: a range over the input's elements, whose body writes   *)
(* the current node, texts and the elements of a range inside it.  The     *)
(* input is an array of up to MaxRangeLen elements, each a number or an    *)
(* array of up to MaxRangeLen numbers.                                     *)
(***************************************************************************)
MaxRangeLen == 2
RangeKids == {IntV(1)} \cup {ArrV([i \in 1..n |-> IntV(i)]) : n \in 0..MaxRangeLen}
RangeInputs == Arrays(RangeKids, MaxRangeLen)

CurrentNode == jsonpathTemplateElem(Query(currentNodeSymbol, <<>>))
RangeHeaders ==
    {Query(rootNodeSymbol, <<Child(wildcardSelector)>>),
     Query(currentNodeSymbol, <<Child(wildcardSelector)>>),
     Query(rootNodeSymbol, <<Child(indexSelector(0)), Child(wildcardSelector)>>),
     Query(rootNodeSymbol, <<Child(arraySliceSelector(optionalInt(TRUE, 1), undefinedOptionalInt, 1))>>),
     Query(rootNodeSymbol, <<Child(indexSelector(1))>>)}
InnerRange == rangeTemplateElem(Query(currentNodeSymbol, <<Child(wildcardSelector)>>),
                                <<CurrentNode, textTemplateElem(",")>>)
RangeBodies ==
    {<<>>, <<CurrentNode>>, <<textTemplateElem("-"), CurrentNode>>,
     <<CurrentNode, textTemplateElem(";")>>,
     <<InnerRange>>, <<textTemplateElem("["), InnerRange, textTemplateElem("]")>>,
     <<jsonpathTemplateElem(Query(currentNodeSymbol, <<Child(indexSelector(0))>>))>>}
RangeTemplates ==
    {<<rangeTemplateElem(header, body)>> : header \in RangeHeaders, body \in RangeBodies}

InitRange ==
    /\ input \in RangeInputs
    /\ allowMissingKeys \in BOOLEAN
    /\ call = NoCall
    /\ result = NoResult
    /\ NewObject

NextRange ==
    \/ \E t \in RangeTemplates : ExecuteTemplate(t)
    \/ Return

SpecRange == InitRange /\ [][NextRange]_vars

(***************************************************************************)
(* Arguments for the built-in filter functions: nil, a Singular of a node  *)
(* and a ResultSet of up to MaxArgElems nodes.                             *)
(***************************************************************************)
MaxArgElems == 2
ArgNodes ==
    {Null, IntV(1), BoolV(TRUE), StrV("xy"), ArrV(<<IntV(1)>>), MapV(<<Entry("a", IntV(1))>>),
     StructV(<<Entry("a", StrV("x")), Entry("b", Null)>>)}
FunctionArgs ==
    {NilResult} \cup {Singular(n) : n \in ArgNodes}
        \cup {ResultSet([i \in 1..Len(nodes) |-> Ref(<<i>>, nodes[i])]) :
                 nodes \in SeqsUpTo(ArgNodes, MaxArgElems)}

FunctionCall(fct, arg) == [op |-> fct, arg |-> arg]

\* the registered function count called with the one argument arg
CallCount(arg) ==
    /\ call = NoCall
    /\ call' = FunctionCall("count", arg)
    /\ result' = count(<<arg>>)
    /\ UNCHANGED <<input, allowMissingKeys, object>>

\* the registered function length called with the one argument arg
CallLength(arg) ==
    /\ call = NoCall
    /\ call' = FunctionCall("length", arg)
    /\ result' = length(<<arg>>)
    /\ UNCHANGED <<input, allowMissingKeys, object>>

NextFunctions ==
    \/ \E arg \in FunctionArgs : CallCount(arg)
    \/ \E arg \in FunctionArgs : CallLength(arg)
    \/ Return

SpecFunctions == InitParseQuery /\ [][NextFunctions]_vars

(***************************************************************************)
(* Filter texts of operands and operators: an operand is a sub-query, a    *)
(* sub-query in parentheses, a literal or a sub-query after '!'; up to     *)
(* MaxOperators comparison and logical operators stand between the         *)
(* operands.                                                               *)
(***************************************************************************)
MaxOperators == 2
FilterAtoms == {"@.a", "(@.b)", "1", "!@.c"}
FilterOperators == {"==", "&&", "||"}
RECURSIVE FilterChains(_)
FilterChains(n) ==
    IF n = 0 THEN FilterAtoms
    ELSE {chain \o " " \o op \o " " \o atom :
             chain \in FilterChains(n - 1), op \in FilterOperators, atom \in FilterAtoms}
FilterTexts == {"$[?" \o chain \o "]" : chain \in UNION {FilterChains(n) : n \in 0..MaxOperators}}

NextFilterText ==
    \/ \E text \in FilterTexts : ParseQuery(text)
    \/ Return

SpecFilterText == InitParseQuery /\ [][NextFilterText]_vars

(***************************************************************************)
(* Comparisons of a signed with an unsigned integer: every int and every   *)
(* uint of IntBits bits, on either side, under every operator.             *)
(***************************************************************************)
Ints == (0 - Pow2(IntBits - 1))..(Pow2(IntBits - 1) - 1)
Uints == 0..(Pow2(IntBits) - 1)
IntUintPairs ==
    {<<IntV(i), UintV(u)>> : i \in Ints, u \in Uints}
        \cup {<<UintV(u), IntV(i)>> : i \in Ints, u \in Uints}

CompareCall(l, r, op) == [op |-> "compareValues", left |-> l, right |-> r, compareOp |-> op]

\* compareValues on two Singulars, as evalCompareExpr calls it
CompareValues(l, r, op) ==
    /\ call = NoCall
    /\ call' = CompareCall(l, r, op)
    /\ result' = compareValues(Singular(l), Singular(r), op)
    /\ UNCHANGED <<input, allowMissingKeys, object>>

NextIntUint ==
    \/ \E pair \in IntUintPairs, op \in CompareOps : CompareValues(pair[1], pair[2], op)
    \/ Return

SpecIntUint == InitParseQuery /\ [][NextIntUint]_vars

(***************************************************************************)
(* Quoted strings: up to MaxQuoteLen pieces between single or double       *)
(* quotes, a piece being a letter, a newline, a backslash with a newline   *)
(* after it or an escaped backslash.  The quoted string is a name          *)
(* selector or a string literal of a query, or a quoted text element of a  *)
(* template.                                                               *)
(***************************************************************************)
MaxQuoteLen == 2
QuotePieces == {"a", "\n", "\\\n", "\\\\"}
QuoteContents == {Concat(pieces) : pieces \in SeqsUpTo(QuotePieces, MaxQuoteLen)}
QuotedStrings == {q \o content \o q : q \in {"'", "\""}, content \in QuoteContents}
QuotedQueryTexts ==
    UNION {{"$." \o quoted, "$[" \o quoted \o "]", "$[?@.a == " \o quoted \o "]"} :
              quoted \in QuotedStrings}
QuotedTemplateTexts ==
    UNION {{quoted, "{" \o quoted \o "}", "{range .a}" \o quoted \o "{end}"} :
              quoted \in QuotedStrings}

\* JSONPath.Parse of a template text on a new object
ParseTemplateText(text) ==
    /\ call = NoCall
    /\ call' = [op |-> "Parse", text |-> text]
    /\ result' = parseTemplate(text)
    /\ UNCHANGED <<input, allowMissingKeys, object>>

NextQuote ==
    \/ \E text \in QuotedQueryTexts : ParseQuery(text)
    \/ \E text \in QuotedTemplateTexts : ParseTemplateText(text)
    \/ Return

SpecQuote == InitParseQuery /\ [][NextQuote]_vars

(***************************************************************************)
(* Calls on one JSONPath object: New, Parse of a template text and Execute *)
(* on the input, up to MaxExecutions Execute calls on an object.  The      *)
(* template texts are complete templates and templates that break off.     *)
(***************************************************************************)
MaxExecutions == 2
ObjectInputs ==
    {Null, MapV(<<Entry("a", IntV(1))>>),
     MapV(<<Entry("a", IntV(2)), Entry("items", ArrV(<<IntV(1), IntV(2)>>))>>)}
CompleteTemplateTexts ==
    {"", "a={.a}", "{.a}{.items[?@ > 1]}", "{range .items[*]}{@},{end};", "{.a}{.b}-"}
BrokenTemplateTexts == {"{", "a={.a}{", "{.a}{range .items[*]}{@}", "{.b}'", "x{.a"}
TemplateTexts == CompleteTemplateTexts \cup BrokenTemplateTexts
ObjectTemplateTexts == {"", "a={.a}", "{.a}{.b}-", "{", "a={.a}{", "{.a}{range .items[*]}{@}"}

ObjectCall(op, text) == [op |-> op, text |-> text, data |-> input]
Returned(err) == [err |-> err]

InitObject ==
    /\ input \in ObjectInputs
    /\ allowMissingKeys \in BOOLEAN
    /\ call = NoCall
    /\ result = Returned(NoErr)
    /\ NewObject

\* j = New(name)
New ==
    /\ call # NoCall
    /\ call' = NoCall
    /\ result' = Returned(NoErr)
    /\ jParser' = NilParser
    /\ executions' = <<>>
    /\ lastParse' = NotParsed
    /\ UNCHANGED <<input, allowMissingKeys>>

\* j.Parse(text): j.parser is a new templateParser, which then parses the
\* text; the error is returned and the parser stays in the field
Parse(text) ==
    /\ call' = ObjectCall("Parse", text)
    /\ result' = parseTemplate(text)
    /\ jParser' = PointerTo(result'.tp)
    /\ lastParse' = Parsed(text, result'.err)
    /\ UNCHANGED <<input, allowMissingKeys, executions>>

\* j.Execute(wr, input) with a writer of its own, from the call to the return
Execute ==
    /\ Len(executions) < MaxExecutions
    /\ call' = ObjectCall("Execute", "")
    /\ LET e == executeTemplateFrom(jParser, JSONPath_Execute(jParser), Ref(<<>>, input),
                                    allowMissingKeys)
       IN  /\ executions' = Append(executions, e)
           /\ result' = Returned(e.err)
    /\ UNCHANGED <<input, allowMissingKeys, jParser, lastParse>>

NextObject ==
    \/ New
    \/ \E text \in ObjectTemplateTexts : Parse(text)
    \/ Execute

SpecObject == InitObject /\ [][NextObject]_vars

(***************************************************************************)
(* Execute calls that run at the same time on one parsed template, each    *)
(* with a writer of its own: a step is one round of the loop of            *)
(* executeTemplate in one of the calls.  The template is parsed before the *)
(* first Execute call.                                                     *)
(***************************************************************************)
ParseFirst(text) ==
    /\ executions = <<>>
    /\ Parse(text)

\* a call of j.Execute(wr, input) arrives at the loop of executeTemplate
BeginExecute ==
    /\ Len(executions) < MaxExecutions
    /\ call' = ObjectCall("Execute", "")
    /\ executions' = Append(executions, JSONPath_Execute(jParser))
    /\ result' = Returned(NoErr)
    /\ UNCHANGED <<input, allowMissingKeys, jParser, lastParse>>

\* the i-th call goes through one round of the loop
StepExecute(i) ==
    /\ ~executions[i].done
    /\ executions' =
           [executions EXCEPT
               ![i] = executeTemplateStep(jParser, executions[i], Ref(<<>>, input),
                                          allowMissingKeys)]
    /\ result' = Returned(executions'[i].err)
    /\ UNCHANGED <<input, allowMissingKeys, call, jParser, lastParse>>

NextConcurrent ==
    \/ \E text \in TemplateTexts : ParseFirst(text)
    \/ BeginExecute
    \/ \E i \in 1..Len(executions) : StepExecute(i)

SpecConcurrent == InitObject /\ [][NextConcurrent]_vars

(***************************************************************************)
(* Filters whose logical operators have a function call as an operand.     *)
(* length(@) has no value on a number, a boolean and null, and a value on  *)
(* a string; the literal false stands next to it as the operand that       *)
(* counts as false.  The input is an array of such elements.               *)
(***************************************************************************)
NoValueNodes == {IntV(1), BoolV(TRUE), Null}
NoValueInputs == Arrays(NoValueNodes \cup {StrV("xy")}, MaxArgElems)
NoValueOperand == "length(@)"
FalseOperand == "false"
\* what stands before and after the operand; the first shape is the
\* operand as the whole filter expression
TopLevelShape == <<"", "">>
NoValueShapes ==
    {TopLevelShape, <<"!", "">>, <<"", " && true">>, <<"true && ", "">>,
     <<"", " || true">>, <<"false || ", "">>, <<"!(", ")">>}
NoValueText(shape, operand) == "$[?" \o shape[1] \o operand \o shape[2] \o "]"
NoValueCall(shape, operand) ==
    [op |-> "parseAndExecuteFilter", text |-> NoValueText(shape, operand),
     shape |-> shape, operand |-> operand]

\* queryParser.parse of a query text, then executeQuery of the parsed query
\* on rootDataNode
parseAndExecuteQuery(text, rootDataNode, allow) ==
    LET parsed == parse(text)
    IN  IF parsed.err # NoErr THEN Failed(parsed.err)
        ELSE executeQuery(parsed.qp, Ref(<<>>, rootDataNode), Ref(<<>>, rootDataNode), FALSE,
                          allow)

InitNoValue ==
    /\ input \in NoValueInputs
    /\ allowMissingKeys \in BOOLEAN
    /\ call = NoCall
    /\ result = NoResult
    /\ NewObject

ParseAndExecuteFilter(shape, operand) ==
    /\ call = NoCall
    /\ call' = NoValueCall(shape, operand)
    /\ result' =
           LET parsed == parse(NoValueText(shape, operand))
           IN  IF parsed.err # NoErr THEN Failed(parsed.err)
               ELSE executeQuery(parsed.qp, Ref(<<>>, input), Ref(<<>>, input), FALSE,
                                 allowMissingKeys)
    /\ UNCHANGED <<input, allowMissingKeys, object>>

NextNoValue ==
    \/ \E shape \in NoValueShapes, operand \in {NoValueOperand, FalseOperand} :
            ParseAndExecuteFilter(shape, operand)
    \/ Return

SpecNoValue == InitNoValue /\ [][NextNoValue]_vars

(***************************************************************************)
(* Templates with quoted texts: a range over the input's items whose body  *)
(* is up to MaxBodyPieces pieces, each a quoted text (empty, or not and    *)
(* with a query after it), an empty quoted text in braces or a range with  *)
(* an empty quoted text as its body; and a template with quoted texts      *)
(* outside of a range.                                                     *)
(***************************************************************************)
MaxBodyPieces == 1
BodyPieces == {"''", "\"\"", "'a'{@}", "{''}", "{range @[*]}''{end}"}
RECURSIVE Bodies(_)
Bodies(n) ==
    IF n = 0 THEN {""}
    ELSE Bodies(n - 1) \cup {body \o piece : body \in Bodies(n - 1), piece \in BodyPieces}
QuotedTextTemplates ==
    {"{range .items[*]}" \o body \o "{end}" : body \in Bodies(MaxBodyPieces)}
        \cup {"{''}\"\"'a'"}

NextQuotedText ==
    \/ New
    \/ \E text \in QuotedTextTemplates : Parse(text)
    \/ Execute

SpecQuotedText == InitObject /\ [][NextQuotedText]_vars

(***************************************************************************)
(* Queries that begin with a descendant segment of one selector: $..[sel], *)
(* alone or with one child segment after it, on the tree inputs.           *)
(***************************************************************************)
DescendantSelectors ==
    {wildcardSelector, nameSelector("a"), indexSelector(0), indexSelector(-1),
     ExistenceFilter(Query(currentNodeSymbol, <<Child(nameSelector("a"))>>))}
        \cup SliceSamples
RemainingSegments == {<<>>, <<Child(wildcardSelector)>>, <<Child(nameSelector("a"))>>}
SingleDescendantQueries ==
    {Query(rootNodeSymbol, <<Desc(sel)>> \o rest) :
        sel \in DescendantSelectors, rest \in RemainingSegments}

NextDescendant ==
    \/ \E q \in SingleDescendantQueries : ExecuteQuery(q)
    \/ Return

SpecDescendant == Init /\ [][NextDescendant]_vars

(***************************************************************************)
(* Existence-only evaluation, as evalFilterQryExpr asks for it: a query    *)
(* of child and descendant segments, with one or two selectors, evaluated  *)
(* on the tree inputs with existence-only on.                              *)
(***************************************************************************)
SliceAll == arraySliceSelector(undefinedOptionalInt, undefinedOptionalInt, 1)
SliceReverse == arraySliceSelector(undefinedOptionalInt, undefinedOptionalInt, -1)
HasA == ExistenceFilter(Query(currentNodeSymbol, <<Child(nameSelector("a"))>>))
ExistenceSegments ==
    {<<Segment(type, <<sel>>)>> :
        type \in {childSegmentType, descendantSegmentType},
        sel \in {wildcardSelector, nameSelector("a"), indexSelector(0), SliceAll, SliceReverse, HasA}}
        \cup {<<Child(wildcardSelector), Child(wildcardSelector)>>,
              <<Child(wildcardSelector), Child(nameSelector("a"))>>,
              <<Child(nameSelector("a")), Child(nameSelector("b"))>>,
              <<Segment(childSegmentType, <<nameSelector("b"), wildcardSelector>>)>>,
              <<Segment(childSegmentType, <<indexSelector(1), indexSelector(0)>>)>>,
              <<Segment(descendantSegmentType, <<nameSelector("a"), indexSelector(0)>>)>>,
              <<Desc(wildcardSelector), Child(nameSelector("a"))>>,
              <<Desc(nameSelector("a")), Child(wildcardSelector)>>,
              <<Desc(nameSelector("a")), Desc(nameSelector("b"))>>}
ExistenceQueries == {Query(currentNodeSymbol, segs) : segs \in ExistenceSegments}

ExistenceCall(q) == [op |-> "executeQuery existence-only", query |-> q]

\* executeQuery as evalFilterQryExpr calls it for an existence test, with
\* the input as the current node
ExecuteExistenceOnly(q) ==
    /\ call = NoCall
    /\ call' = ExistenceCall(q)
    /\ result' = executeQuery(q, Ref(<<>>, input), Ref(<<>>, input), TRUE, allowMissingKeys)
    /\ UNCHANGED <<input, allowMissingKeys, object>>

NextExistence ==
    \/ \E q \in ExistenceQueries : ExecuteExistenceOnly(q)
    \/ Return

SpecExistence == Init /\ [][NextExistence]_vars

(***************************************************************************)
(* What the data says, independently of the executor                       *)
(***************************************************************************)
HasKey(node, key) == \E i \in 1..Len(node.v) : node.v[i].key = key
ValueOfKey(node, key) == node.v[CHOOSE i \in 1..Len(node.v) : node.v[i].key = key].val

\* a Name selector resolves on a mapping or record that has the key, an
\* Index selector on an array that has the (negative-resolved) index
Resolves(node, sel) ==
    IF sel.t = "name" THEN node.k \in {"map", "struct"} /\ HasKey(node, sel.name)
    ELSE /\ node.k = "array"
         /\ LET i == IF sel.index < 0 THEN Len(node.v) + sel.index ELSE sel.index
            IN  0 <= i /\ i < Len(node.v)

Resolved(node, sel) ==
    IF sel.t = "name" THEN ValueOfKey(node, sel.name)
    ELSE node.v[(IF sel.index < 0 THEN Len(node.v) + sel.index ELSE sel.index) + 1]

\* the walk of a singular query from node: where it stops resolving
\* (stuck, on which node, at which selector) or the node it reaches
RECURSIVE SingularWalk(_, _)
SingularWalk(node, segs) ==
    IF segs = <<>> THEN [stuck |-> FALSE, node |-> node, sel |-> NoSelector]
    ELSE LET sel == segs[1].selectors[1]
         IN  IF Resolves(node, sel) THEN SingularWalk(Resolved(node, sel), Tail(segs))
             ELSE [stuck |-> TRUE, node |-> node, sel |-> sel]

IsPathCall == call.op = "executeQuery" /\ call.query \in PathQueries
PathWalk == SingularWalk(input, call.query.segments)

\* an Index selector on a string that is long enough for the index: the
\* executor finds the index in range and then no element
IndexInString(node, sel) ==
    /\ sel.t = "index"
    /\ node.k = "string"
    /\ LET i == IF sel.index < 0 THEN StrLen(node.v) + sel.index ELSE sel.index
       IN  0 <= i /\ i < StrLen(node.v)

EmptyNoError == result.err = NoErr /\ ~result.isNil /\ result.elems = <<>>

\* C1 as claimed: a Name or Index selector of a top-level query of child
\* segments that does not resolve on its node gives an error when
\* allowMissingKeys is false and an empty result without error when it is
\* true.
C1_UnresolvedSelectorAsClaimed ==
    (IsPathCall /\ PathWalk.stuck) =>
        IF allowMissingKeys THEN EmptyNoError ELSE result.err # NoErr

\* C1 amended: as claimed when the node is not null; on a null node, and
\* for an Index selector on a string that is long enough for the index, the
\* result is empty without an error for either setting of allowMissingKeys.
C1_UnresolvedSelector ==
    (IsPathCall /\ PathWalk.stuck) =>
        IF PathWalk.node.k = "null" \/ IndexInString(PathWalk.node, PathWalk.sel)
        THEN EmptyNoError
        ELSE IF allowMissingKeys THEN EmptyNoError ELSE result.err = ExecutionError

\* C1 witness: a selector failed on a mapping without the key, missing keys
\* are not allowed, and the execution returned an error
C1_Witness ==
    /\ IsPathCall
    /\ PathWalk.stuck
    /\ PathWalk.node.k = "map"
    /\ PathWalk.sel.t = "name"
    /\ ~allowMissingKeys
    /\ result.err = ExecutionError

\* the walk stops on a node where the executor reports a missing key
StrictlyStuck(node, segs) ==
    LET w == SingularWalk(node, segs)
    IN  w.stuck /\ w.node.k # "null" /\ ~IndexInString(w.node, w.sel)

ChildRefs(ref) ==
    IF typeHasChildren(ref.n.k)
    THEN [pos \in 1..Len(ref.n.v) |-> Ref(Append(ref.p, pos), ChildAt(ref.n, pos))]
    ELSE <<>>

Range(seq) == {seq[i] : i \in 1..Len(seq)}

\* all nodes below ref
RECURSIVE Descendants(_)
Descendants(ref) == UNION {{c} \cup Descendants(c) : c \in Range(ChildRefs(ref))}

\* the subsequence of the elements of seq on which a filter holds
RECURSIVE SelectWhere(_, _, _)
SelectWhere(seq, Holds(_, _), f) ==
    IF seq = <<>> THEN <<>>
    ELSE (IF Holds(seq[1].n, f) THEN <<seq[1]>> ELSE <<>>) \o SelectWhere(Tail(seq), Holds, f)

\* the relative sub-query of a filter of Filters, and what the filter asks
\* of a node: that the sub-query resolves from it and, in a comparison,
\* reaches the literal's value
SubQueryOf(f) == IF f.expr.t = "filterQry" THEN f.expr.parser ELSE f.expr.left.parser
FilterHolds(node, f) ==
    LET w == SingularWalk(node, SubQueryOf(f).segments)
    IN  ~w.stuck /\ (f.expr.t = "compareExpr" => w.node = f.expr.right.val)

InputRef == Ref(<<>>, input)
IsFilterCall == call.op = "executeQuery" /\ call.query \in FilterQueries
CallSegment == call.query.segments[1]
CallFilter == CallSegment.selectors[1]

IsFilterTemplateCall == call.op = "Execute" /\ call.templateElems \in FilterTemplates
TemplateFilter == call.templateElems[2].qryParser.segments[1].selectors[1]
SomeElementLacksKey ==
    \E c \in Range(ChildRefs(InputRef)) : StrictlyStuck(c.n, SubQueryOf(TemplateFilter).segments)

IsDescendCall == call.op = "executeQuery" /\ call.query \in DescendQueries

\* C4: a query of descendant segments with Name, Index and Slice selectors
\* returns no error, whatever allowMissingKeys is, and on a scalar input
\* its result is empty.
C4_DescendantNeverFails ==
    IsDescendCall =>
        /\ result.err = NoErr
        /\ ~result.isNil
        /\ ~typeHasChildren(input.k) => result.elems = <<>>

\* C4 witness: missing keys not allowed, the selectors of the descendant
\* segment do not resolve on the root, and a node below it was selected
C4_Witness ==
    /\ IsDescendCall
    /\ ~allowMissingKeys
    /\ \A i \in 1..Len(CallSegment.selectors) :
            /\ CallSegment.selectors[i].t \in {"name", "index"}
            /\ ~Resolves(input, CallSegment.selectors[i])
    /\ result.err = NoErr
    /\ result.elems # <<>>

(***************************************************************************)
(* Slices as Python and RFC 9535 define them                               *)
(***************************************************************************)
Min(a, b) == IF a < b THEN a ELSE b
Max(a, b) == IF a > b THEN a ELSE b
Normalize(i, len) == IF i >= 0 THEN i ELSE len + i

\* the indices lower, lower + step, .. below upper (step > 0), or upper,
\* upper + step, .. above lower (step < 0)
RECURSIVE IndicesFrom(_, _, _)
IndicesFrom(i, bound, step) ==
    IF (step > 0 /\ i < bound) \/ (step < 0 /\ i > bound)
    THEN <<i>> \o IndicesFrom(i + step, bound, step)
    ELSE <<>>

\* the indices a[start:end:step] selects from a sequence of length len
PythonSlice(len, start, end, step) ==
    IF step = 0 THEN <<>>
    ELSE LET s == IF start.isDefined THEN start.intValue
                  ELSE IF step > 0 THEN 0 ELSE len - 1
             e == IF end.isDefined THEN end.intValue
                  ELSE IF step > 0 THEN len ELSE 0 - len - 1
             ns == Normalize(s, len)
             ne == Normalize(e, len)
         IN  IF step > 0
             THEN IndicesFrom(Min(Max(ns, 0), len), Min(Max(ne, 0), len), step)
             ELSE IndicesFrom(Min(Max(ns, -1), len - 1), Min(Max(ne, -1), len - 1), step)

IsSliceCall == call.op = "executeQuery" /\ call.query \in SliceQueries
CallSlice == call.query.segments[1].selectors[1]
\* the 0-based array indices of the selected elements, in result order
SelectedIndices == [i \in 1..Len(result.elems) |-> result.elems[i].p[1] - 1]

\* C5 as claimed: a slice [S:E:K] with K # 0 selects exactly the elements,
\* in the order, that the Python slice a[S:E:K] selects, for bounds of any
\* magnitude.
C5_SliceAsPython ==
    (IsSliceCall /\ CallSlice.step # 0) =>
        /\ result.err = NoErr
        /\ SelectedIndices = PythonSlice(Len(input.v), CallSlice.start, CallSlice.end, CallSlice.step)

BothBoundsDefined == CallSlice.start.isDefined /\ CallSlice.end.isDefined
EqualBounds == BothBoundsDefined /\ CallSlice.start.intValue = CallSlice.end.intValue
\* bounds of one sign that run against the direction of the step
OppositeBounds ==
    /\ BothBoundsDefined
    /\ (CallSlice.start.intValue >= 0) = (CallSlice.end.intValue >= 0)
    /\ \/ CallSlice.step > 0 /\ CallSlice.start.intValue > CallSlice.end.intValue
       \/ CallSlice.step < 0 /\ CallSlice.start.intValue < CallSlice.end.intValue

\* C6 as claimed: a slice selector on an array returns no error, and a step
\* of 0, bounds that run against the step, and equal bounds give the empty
\* result.
C6_SliceNeverFails ==
    IsSliceCall =>
        /\ result.err = NoErr
        /\ (CallSlice.step = 0 \/ EqualBounds \/ OppositeBounds) => result.elems = <<>>

(***************************************************************************)
(* Comparisons                                                             *)
(***************************************************************************)
IsCompareCall == call.op = "executeQuery" /\ call.query \in CompareQueries
CallCompare == call.query.segments[1].selectors[1].expr
CallOp == CallCompare.compareOp

\* the operand an operand expression denotes on the input's element
OperandOf(expr) ==
    IF expr.t = "nullLiteral" THEN Null
    ELSE LET key == expr.parser.segments[1].selectors[1].name
         IN  IF HasKey(input.v[1], key) THEN ValueOfKey(input.v[1], key) ELSE Missing
LeftOperand == OperandOf(CallCompare.left)
RightOperand == OperandOf(CallCompare.right)

\* the comparison was evaluated: an absent member is no error
Compared ==
    /\ IsCompareCall
    /\ allowMissingKeys \/ (LeftOperand # Missing /\ RightOperand # Missing)
\* the comparison was true: the filter selected the element
ComparisonTrue == result.elems # <<>>

NullOrMissing(operand) == operand.k \in {"null", "missing"}
IsPrimitive(operand) == operand.k \in {"bool", "int", "uint", "float", "string"}
IsNamedValues(operand) == operand.k \in {"map", "struct"}
IsStructured(operand) == operand.k = "array" \/ IsNamedValues(operand)

\* C7 as claimed: with an operand that is null or missing, == is true
\* exactly when both operands are null or missing, != exactly when one is
\* and the other is not, and <, <=, > and >= are false.
C7_NullComparison ==
    (Compared /\ (NullOrMissing(LeftOperand) \/ NullOrMissing(RightOperand))) =>
        /\ result.err = NoErr
        /\ ComparisonTrue =
            CASE CallOp = eqOp -> NullOrMissing(LeftOperand) /\ NullOrMissing(RightOperand)
              [] CallOp = neOp -> NullOrMissing(LeftOperand) # NullOrMissing(RightOperand)
              [] OTHER -> FALSE

\* same length and equal elements at every position
SameArray(a, b) == Len(a.v) = Len(b.v) /\ \A i \in 1..Len(a.v) : a.v[i] = b.v[i]

\* C8 as claimed: for two arrays, == is true iff they have the same length
\* and equal elements at every position, != is true iff == is false, and
\* the ordering operators are false.
C8_ArrayComparison ==
    (Compared /\ LeftOperand.k = "array" /\ RightOperand.k = "array") =>
        /\ result.err = NoErr
        /\ ComparisonTrue =
            CASE CallOp = eqOp -> SameArray(LeftOperand, RightOperand)
              [] CallOp = neOp -> ~SameArray(LeftOperand, RightOperand)
              [] OTHER -> FALSE

FieldNames(node) == {node.v[i].key : i \in 1..Len(node.v)}
\* the same field names and equal values under every name
SameFields(a, b) ==
    /\ FieldNames(a) = FieldNames(b)
    /\ \A key \in FieldNames(a) : ValueOfKey(a, key) = ValueOfKey(b, key)

\* C9 as claimed: the comparison of two named-value containers does not
\* crash; == is true iff they have the same field names and equal values
\* under every name (also for null, 0, "" and false), != is true otherwise,
\* and the ordering operators are false.
C9_NamedValuesComparison ==
    (Compared /\ IsNamedValues(LeftOperand) /\ IsNamedValues(RightOperand)) =>
        /\ result.err = NoErr
        /\ ComparisonTrue =
            CASE CallOp = eqOp -> SameFields(LeftOperand, RightOperand)
              [] CallOp = neOp -> ~SameFields(LeftOperand, RightOperand)
              [] OTHER -> FALSE

\* C10 as claimed: a primitive compared with an array, mapping or record,
\* in either order: == is false, != is true, the ordering operators false.
C10_PrimitiveVsStructured ==
    (Compared /\ \/ IsPrimitive(LeftOperand) /\ IsStructured(RightOperand)
                 \/ IsStructured(LeftOperand) /\ IsPrimitive(RightOperand)) =>
        /\ result.err = NoErr
        /\ ComparisonTrue = (CallOp = neOp)

(***************************************************************************)
(* C11: when an operand of a comparison - a filter sub-query or the result *)
(* of a function - selects more than one node on some element the filter   *)
(* is evaluated on, the query ends with an error: no element is picked and *)
(* the comparison does not count as false.                                 *)
(***************************************************************************)
IsOperandCall == call.op = "executeQuery" /\ call.query \in OperandQueries

\* the sub-query whose ResultSet is handed to the comparison as it is
\* (count and length hand on a Singular)
PassedSubQueries(expr) ==
    IF expr.t = "filterQry" THEN {expr.parser}
    ELSE IF expr.t = "functionExpr" /\ expr.fct = "returnarg" THEN {expr.args[1].parser}
    ELSE {}

\* the nodes a sub-query of OperandSubQueries selects from ref, by the data
SelectedBy(sub, ref) ==
    LET seg == sub.segments[1]
    IN  IF seg.segmentType = descendantSegmentType THEN Descendants(ref)
        ELSE IF seg.selectors[1].t = "wildcard" THEN Range(ChildRefs(ref))
        ELSE {c \in Range(ChildRefs(ref)) :
                ref.n.k = "array" /\ c.p[Len(c.p)] = seg.selectors[1].index + 1}

SeveralSelected ==
    \E c \in Range(ChildRefs(InputRef)) :
        \E side \in {CallFilter.expr.left, CallFilter.expr.right} :
            \E sub \in PassedSubQueries(side) : Cardinality(SelectedBy(sub, c)) > 1

C11_SeveralElementsOperand ==
    (IsOperandCall /\ SeveralSelected) => result.err \in {ExecutionError, InternalError}

\* a function result with two elements is met on the second element of
\* the input, after a first element that the filter does not select
C11_Witness ==
    /\ IsOperandCall
    /\ CallFilter.expr.left.t = "functionExpr"
    /\ input = ArrV(<<ArrV(<<StrV("x")>>), ArrV(<<IntV(1), IntV(1)>>)>>)
    /\ result.err = InternalError

(***************************************************************************)
(* C12: parsing a query whose filter compares a non-singular sub-query (a  *)
(* wildcard, slice, filter, several selectors or a descendant segment, as  *)
(* in $[?.'persons'.* <= 'abc']) fails with a syntax error.                *)
(***************************************************************************)
IsNonSingularComparison(text) ==
    \E l \in OperandTexts, op \in CompareOpTexts, r \in OperandTexts :
        /\ text = CmpText(l, op, r)
        /\ (l \in NonSingularOperandTexts \/ r \in NonSingularOperandTexts)

C12_NonSingularComparisonRejected ==
    (call.op = "parse" /\ IsNonSingularComparison(call.text)) => result.err = SyntaxError

(***************************************************************************)
(* C13: a filter of atoms, each with or without '!', joined by '&&' and    *)
(* '||' has, for every truth assignment of the atoms, the value of the     *)
(* expression read with '!' over '&&' over '||', and a parenthesised pair  *)
(* keeps its grouping: the filter selects the input's one element exactly  *)
(* when that value is true.                                                *)
(***************************************************************************)
\* the expression read with standard precedence: a disjunction of maximal
\* runs of '&&'
StdValue(vals, ops) ==
    \E i \in 1..Len(vals) : \E k \in i..Len(vals) :
        /\ i = 1 \/ ops[i - 1] = orOp
        /\ k = Len(vals) \/ ops[k] = orOp
        /\ \A j \in i..(k - 1) : ops[j] = andOp
        /\ \A j \in i..k : vals[j]
AtomValue(s, i, keys) == (AtomKeys[i] \in keys) # s.negs[i]
ShapeValue(s, keys) ==
    LET n == Len(s.negs)
        pair == IF s.ops[s.paren] = andOp
                THEN AtomValue(s, s.paren, keys) /\ AtomValue(s, s.paren + 1, keys)
                ELSE AtomValue(s, s.paren, keys) \/ AtomValue(s, s.paren + 1, keys)
    IN  IF s.paren = 0 THEN StdValue([i \in 1..n |-> AtomValue(s, i, keys)], s.ops)
        ELSE StdValue([i \in 1..(n - 1) |->
                          IF i < s.paren THEN AtomValue(s, i, keys)
                          ELSE IF i = s.paren THEN pair # s.parenNeg
                          ELSE AtomValue(s, i + 1, keys)],
                      [i \in 1..(n - 2) |-> IF i < s.paren THEN s.ops[i] ELSE s.ops[i + 1]])
InputKeys == {input.v[1].v[i].key : i \in 1..Len(input.v[1].v)}

C13_AndBindsTighterThanOr ==
    call.op = "parseAndExecute" =>
        /\ result.err = NoErr
        /\ (Len(result.elems) = 1) <=> ShapeValue(call.shape, InputKeys)

\* '@.a && @.b || @.c' on a map that has only c: the parser reads a
\* right-hand side 'b || c' and regroups it
C13_Witness ==
    /\ call.op = "parseAndExecute"
    /\ call.text = "$[?@.a && @.b || @.c]"
    /\ InputKeys = {"c"}
    /\ Len(result.elems) = 1

(***************************************************************************)
(* C14: a filter in which a comparison is directly followed by another     *)
(* comparison operator, a op1 b op2 c without parentheses, is rejected     *)
(* with a syntax error when it is parsed.                                  *)
(***************************************************************************)
C14_ChainedComparisonRejected ==
    (call.op = "parse" /\ call.text \in ChainTexts) => result.err = SyntaxError

C14_Witness ==
    /\ call = ParseQueryCall("$[?@.a <= 'abc' == true]")
    /\ result.err = SyntaxError

(***************************************************************************)
(* C15: a successfully parsed query has its singular flag set exactly when *)
(* every segment is a child segment with one selector that is a name or an *)
(* index selector; this holds for the query that queryParser.parse         *)
(* compiled and for the filter sub-queries in it.                          *)
(***************************************************************************)
IsSingularShape(segments) ==
    \A i \in 1..Len(segments) :
        /\ segments[i].segmentType = childSegmentType
        /\ Len(segments[i].selectors) = 1
        /\ segments[i].selectors[1].t \in {"name", "index"}

\* the filter sub-queries that are a filter or an operand of its comparison
FilterOperands(expr) ==
    IF expr.t = "filterQry" THEN {expr}
    ELSE IF expr.t = "compareExpr" THEN {e \in {expr.left, expr.right} : e.t = "filterQry"}
    ELSE {}
FilterSubQueries(segments) ==
    UNION {UNION {FilterOperands(segments[i].selectors[j].expr) :
                     j \in {k \in 1..Len(segments[i].selectors) :
                               segments[i].selectors[k].t = "filter"}}
           : i \in 1..Len(segments)}

C15_SingularFlag ==
    (call.op = "parse" /\ result.err = NoErr) =>
        /\ result.qp.isSingular = IsSingularShape(result.qp.segments)
        /\ \A sub \in FilterSubQueries(result.qp.segments) :
               sub.parser.isSingular = IsSingularShape(sub.parser.segments)

(***************************************************************************)
(* C16: a query without a '$' or '@' prefix is rooted at the root when it  *)
(* stands at the outermost level of a template, a range header there       *)
(* included, and at the current node when it is a filter sub-query or      *)
(* stands inside a range body; after the 'end' of a range the default that *)
(* was in force before the range is back, however the ranges nest and      *)
(* follow each other.                                                      *)
(***************************************************************************)
\* the symbols of the parsed queries in the order they were written: a
\* query, then its filter sub-query; a range's header, then its body
RECURSIVE SubQuerySymbols(_)
SubQuerySymbols(segments) ==
    IF segments = <<>> THEN <<>>
    ELSE (IF Head(segments).selectors[1].t = "filter"
             /\ Head(segments).selectors[1].expr.t = "filterQry"
          THEN <<Head(segments).selectors[1].expr.parser.nodeIdentifierSymbol>>
          ELSE <<>>) \o SubQuerySymbols(Tail(segments))
SymbolsOf(qp) == <<qp.nodeIdentifierSymbol>> \o SubQuerySymbols(qp.segments)
RECURSIVE QuerySymbols(_)
QuerySymbols(elems) ==
    IF elems = <<>> THEN <<>>
    ELSE (CASE Head(elems).t = "jsonpath" -> SymbolsOf(Head(elems).qryParser)
            [] Head(elems).t = "range" ->
                   SymbolsOf(Head(elems).qryParser) \o QuerySymbols(Head(elems).elems)
            [] OTHER -> <<>>) \o QuerySymbols(Tail(elems))

\* the ranges open before the i-th element of the text
OpenRanges(tokens, i) ==
    Cardinality({j \in 1..(i - 1) : tokens[j] = "R"})
        - Cardinality({j \in 1..(i - 1) : tokens[j] = "E"})
DefaultAt(tokens, i) ==
    IF OpenRanges(tokens, i) = 0 THEN rootNodeSymbol ELSE currentNodeSymbol
RECURSIVE ExpectedSymbols(_, _)
ExpectedSymbols(tokens, i) ==
    IF i > Len(tokens) THEN <<>>
    ELSE (CASE tokens[i] \in {"Q", "R"} -> <<DefaultAt(tokens, i)>>
            [] tokens[i] = "F" -> <<DefaultAt(tokens, i), currentNodeSymbol>>
            [] OTHER -> <<>>) \o ExpectedSymbols(tokens, i + 1)

Balanced(tokens) ==
    /\ \A i \in 1..(Len(tokens) + 1) : OpenRanges(tokens, i) >= 0
    /\ OpenRanges(tokens, Len(tokens) + 1) = 0

RECURSIVE ElemTokens(_)
ElemTokens(elems) ==
    IF elems = <<>> THEN <<>>
    ELSE (CASE Head(elems).t = "text" -> [i \in 1..Len(Head(elems).text) |-> "T"]
            [] Head(elems).t = "jsonpath" ->
                   IF Len(Head(elems).qryParser.segments) = 1 THEN <<"Q">> ELSE <<"F">>
            [] Head(elems).t = "range" -> <<"R">> \o ElemTokens(Head(elems).elems) \o <<"E">>)
         \o ElemTokens(Tail(elems))

C18_RangesBalanced ==
    call.op = "Parse" =>
        IF Balanced(call.tokens)
        THEN result.err = NoErr /\ ElemTokens(result.tp.templateElems) = call.tokens
        ELSE result.err = SyntaxError

\* a second 'end' after the one that closed the range
C18_Witness ==
    /\ call.op = "Parse"
    /\ call.tokens = <<"R", "Q", "E", "E">>
    /\ result.err = SyntaxError

(***************************************************************************)
(* C17: a range element evaluates its header query and then, for each     *)
(* element of the header's ResultSet in result order, executes every body  *)
(* element in template order with that element as the current node (a     *)
(* range in the body iterates relative to the outer element); what is      *)
(* written is the concatenation of the body outputs in that order, and a   *)
(* header with an empty ResultSet writes nothing and is no error.          *)
(***************************************************************************)
RECURSIVE FlattenSeq(_)
FlattenSeq(seqs) == IF seqs = <<>> THEN <<>> ELSE Head(seqs) \o FlattenSeq(Tail(seqs))

QueryElems(q, cur) ==
    executeQuery(q, Ref(<<>>, input), cur, FALSE, allowMissingKeys).elems

\* what the elements write on the current node cur when no query fails
RECURSIVE ExpectedOut(_, _)
ExpectedOut(elems, cur) ==
    FlattenSeq([j \in 1..Len(elems) |->
        CASE elems[j].t = "text" -> <<WrittenText(elems[j].text)>>
          [] elems[j].t = "jsonpath" -> <<WrittenResults(QueryElems(elems[j].qryParser, cur))>>
          [] elems[j].t = "range" ->
                 FlattenSeq([i \in 1..Len(QueryElems(elems[j].qryParser, cur)) |->
                     ExpectedOut(elems[j].elems, QueryElems(elems[j].qryParser, cur)[i])])])

HeaderResult ==
    executeQuery(call.templateElems[1].qryParser, Ref(<<>>, input), Ref(<<>>, input), FALSE,
                 allowMissingKeys)

C17_RangeIteratesInOrder ==
    (call.op = "Execute" /\ call.templateElems \in RangeTemplates) =>
        /\ result.err = NoErr => result.out = ExpectedOut(call.templateElems, Ref(<<>>, input))
        /\ (HeaderResult.err = NoErr /\ ~HeaderResult.isNil /\ HeaderResult.elems = <<>>) =>
               (result.err = NoErr /\ result.out = <<>>)

\* two elements, the second an array of two: the body brackets the
\* elements of each
C17_Witness ==
    /\ call.op = "Execute"
    /\ call.templateElems =
           <<rangeTemplateElem(Query(rootNodeSymbol, <<Child(wildcardSelector)>>),
                               <<textTemplateElem("["), InnerRange, textTemplateElem("]")>>)>>
    /\ input = ArrV(<<ArrV(<<IntV(1)>>), ArrV(<<IntV(1), IntV(2)>>)>>)
    /\ result.err = NoErr
    /\ Len(result.out) = 10

(***************************************************************************)
(* C19: count and length, called with one argument, never return an error. *)
(* count returns the number of elements of a ResultSet and null for any    *)
(* other argument, a Singular included; length returns the length or the   *)
(* number of fields of the string, array, map or struct that a Singular or *)
(* a ResultSet of one element holds, and null for any other argument, a    *)
(* ResultSet of several elements included.                                 *)
(***************************************************************************)
HasLength(node) == node.k \in {"string", "array", "map", "struct"}
SpecCount(arg) ==
    IF arg.t = "ResultSet" THEN Singular(IntV(Len(arg.elems))) ELSE NilResult
SpecLength(arg) ==
    IF arg.t = "Singular" /\ HasLength(arg.value) THEN Singular(IntV(NodeLen(arg.value)))
    ELSE IF arg.t = "ResultSet" /\ Len(arg.elems) = 1 /\ HasLength(arg.elems[1].n)
         THEN Singular(IntV(NodeLen(arg.elems[1].n)))
    ELSE NilResult

C19_CountLengthNeverFail ==
    /\ call.op = "count" => result = SpecCount(call.arg)
    /\ call.op = "length" => result = SpecLength(call.arg)

\* C20: for every query text that parses, the text that the string methods
\* print for the resulting AST parses again, and the second parse gives the
\* same root identifier and the same segments (selectors, filter
\* expressions, literals and flags) as the first.
C20_RoundTrip ==
    (call.op = "parse" /\ result.err = NoErr) =>
        LET again == parse(nodeIdentifierString(result.qp))
        IN  /\ again.err = NoErr
            /\ again.qp.nodeIdentifierSymbol = result.qp.nodeIdentifierSymbol
            /\ again.qp.segments = result.qp.segments

(***************************************************************************)
(* C21: Execute changes neither the input nor the parsed template.  After  *)
(* any number of Execute calls, finished or under way side by side with a  *)
(* writer each, the input is the value the call was handed, the parser is  *)
(* the one Parse left (every node and flag of it), and each call has       *)
(* written what it writes when it runs alone: all of it with the same      *)
(* error when it has returned, and the output of the elements before its   *)
(* position while it is under way.                                         *)
(***************************************************************************)
RunsAlone(e) ==
    IF jParser.isNil THEN e = Execution(1, <<>>, ExecutionError, TRUE)
    ELSE IF e.done
         THEN TmplRet(e.err, e.wr)
                  = executeTemplate(jParser.tp.templateElems, Ref(<<>>, input), allowMissingKeys)
    ELSE TmplRet(NoErr, e.wr)
             = execTmplElems(tmplExecCtxt(Ref(<<>>, input), allowMissingKeys),
                             SubSeq(jParser.tp.templateElems, 1, e.pos - 1),
                             Ref(<<>>, input), 1, <<>>)

C29_ExecuteOnlyAfterParse ==
    (call.op = "Execute" /\ (~lastParse.made \/ lastParse.err # NoErr)) =>
        /\ result.err # NoErr
        /\ executions[Len(executions)].wr = <<>>

(***************************************************************************)
(* C22: a quoted string or quoted text element with a newline between its  *)
(* quotes, alone or after a backslash, is rejected with a syntax error.    *)
(***************************************************************************)
HasNewline(text) == \E i \in 0..(Len(text) - 1) : CharAt(text, i) = "\n"

C22_NewlineInQuoteRejected ==
    (call.op \in {"parse", "Parse"} /\ HasNewline(call.text)) => result.err = SyntaxError

(***************************************************************************)
(* C23: for a signed integer and an unsigned integer, on whichever side    *)
(* each stands, every comparison operator gives the result of comparing    *)
(* the two numbers, and the comparison with the sides swapped and the      *)
(* operator mirrored gives the same result.                                *)
(***************************************************************************)
Mirrored(op) ==
    CASE op = ltOp -> gtOp
      [] op = gtOp -> ltOp
      [] op = leOp -> geOp
      [] op = geOp -> leOp
      [] OTHER -> op
NumbersCompare(l, r, op) ==
    CASE op = eqOp -> l = r
      [] op = neOp -> l # r
      [] op = ltOp -> l < r
      [] op = gtOp -> r < l
      [] op = leOp -> ~(r < l)
      [] op = geOp -> ~(l < r)

C23_IntUintComparison ==
    call.op = "compareValues" =>
        /\ result = CmpRet(NumbersCompare(call.left.v, call.right.v, call.compareOp))
        /\ result = compareValues(Singular(call.right), Singular(call.left),
                                  Mirrored(call.compareOp))

\* the smallest int is compared with the largest uint, and found smaller
C23_Witness ==
    /\ call = CompareCall(IntV(0 - Pow2(IntBits - 1)), UintV(Pow2(IntBits) - 1), ltOp)
    /\ result = CmpRet(TRUE)

(***************************************************************************)
(* C24: the filter-expression parser never builds a comparison whose left  *)
(* operand is a logical expression: for every text, parsing ends in an     *)
(* AST or a syntax error and never in the internal-invariant panic, also   *)
(* when a comparison operator follows an operand with a '!' before it.     *)
(***************************************************************************)
C24_NoComparisonOfLogicalExpr ==
    call.op = "parse" => result.err \in {NoErr, SyntaxError}

(***************************************************************************)
(* C25: in every AST the parser returns, the existence-only flag of a      *)
(* filter sub-query is true when the sub-query is the top-level expression *)
(* of a filter selector, an operand of '&&', '||' or '!', or in            *)
(* parentheses used in one of these ways, and false when it is an operand  *)
(* of a comparison.                                                        *)
(***************************************************************************)
RECURSIVE FlagsAsUsed(_, _)
FlagsAsUsed(expr, use) ==
    CASE expr.t = "filterQry" ->
             /\ use = "existence" => expr.evalExistenceOnly
             /\ use = "comparison" => ~expr.evalExistenceOnly
             /\ \A i \in 1..Len(expr.parser.segments) :
                    \A j \in 1..Len(expr.parser.segments[i].selectors) :
                        LET sel == expr.parser.segments[i].selectors[j]
                        IN  sel.t = "filter" => FlagsAsUsed(sel.expr, "existence")
      [] expr.t = "logicalExpr" ->
             /\ FlagsAsUsed(expr.left, "existence")
             /\ expr.logicalOp # notOp => FlagsAsUsed(expr.right, "existence")
      [] expr.t = "compareExpr" ->
             FlagsAsUsed(expr.left, "comparison") /\ FlagsAsUsed(expr.right, "comparison")
      [] expr.t = "parenExpr" ->
             FlagsAsUsed(expr.inner, IF use = "existence" THEN "existence" ELSE "other")
      [] expr.t = "functionExpr" ->
             \A i \in 1..Len(expr.args) : FlagsAsUsed(expr.args[i], "other")
      [] OTHER -> TRUE

C25_ExistenceOnlyFlags ==
    (call.op = "parse" /\ result.err = NoErr) =>
        \A i \in 1..Len(result.qp.segments) :
            \A j \in 1..Len(result.qp.segments[i].selectors) :
                LET sel == result.qp.segments[i].selectors[j]
                IN  sel.t = "filter" => FlagsAsUsed(sel.expr, "existence")

\* '&&' is regrouped under '||': the sub-query in parentheses and the two
\* other sub-queries are operands of logical operators
C25_Witness ==
    /\ call = ParseQueryCall("$[?(@.b) && @.a || @.a]")
    /\ result.err = NoErr
    /\ result.qp.segments[1].selectors[1].expr.logicalOp = orOp
    /\ result.qp.segments[1].selectors[1].expr.left.logicalOp = andOp
    /\ result.qp.segments[1].selectors[1].expr.left.left.inner.evalExistenceOnly
    /\ result.qp.segments[1].selectors[1].expr.left.right.evalExistenceOnly
    /\ result.qp.segments[1].selectors[1].expr.right.evalExistenceOnly

\* the filter that has the literal false where the call has its operand
NoValueAsFalse(shape) ==
    parseAndExecuteQuery(NoValueText(shape, FalseOperand), input, allowMissingKeys)

\* C26 as claimed: an operand of '&&', '||' or '!' that evaluates to no
\* value counts as false, without an error and without a crash: on an array
\* whose elements all give length(@) no value, a filter with length(@) as
\* an operand ends without error and selects what the same filter with
\* false as that operand selects, and length(@) as the whole filter
\* expression selects nothing
C26_NoValueOperandIsFalse ==
    (/\ call.op = "parseAndExecuteFilter"
     /\ call.operand = NoValueOperand
     /\ \A i \in 1..Len(input.v) : input.v[i] \in NoValueNodes)
        => /\ result.err = NoErr
           /\ result.elems = IF call.shape = TopLevelShape THEN <<>>
                             ELSE NoValueAsFalse(call.shape).elems

\* every element of elems, and of the body of every range in it, is a
\* text, a query or a range
RECURSIVE NoNilElem(_)
NoNilElem(elems) ==
    \A i \in 1..Len(elems) :
        /\ elems[i].t \in {"text", "jsonpath", "range"}
        /\ elems[i].t = "range" => NoNilElem(elems[i].elems)

\* C30 as claimed: after a successful Parse every element of the template's
\* element list, and of every range body in it at any depth, is a text, a
\* query or a range and never nil, also for an empty quoted text in a range
\* body; and no Execute of the template ends in the executor's panic
C30_NoNilTemplateElem ==
    (lastParse.made /\ lastParse.err = NoErr)
        => /\ NoNilElem(jParser.tp.templateElems)
           /\ \A i \in 1..Len(executions) : executions[i].err # Panic

(***************************************************************************)
(* The descendant segment as a walk of the tree                            *)
(***************************************************************************)
\* the children of ref that the selector selects in ref: the result of the
\* child segment [sel] on ref
SelectedIn(ref, sel) ==
    Range(executeQuery(Query(currentNodeSymbol, <<Child(sel)>>), Ref(<<>>, input), ref,
                       FALSE, TRUE).elems)

\* the results of the remaining segments on a selected node
ResultsOf(ref, rest) ==
    executeQuery(Query(currentNodeSymbol, rest), Ref(<<>>, input), ref, FALSE, allowMissingKeys)

\* one result after the other; the first error ends the evaluation
Join(a, b) ==
    IF a.err # NoErr THEN Failed(a.err)
    ELSE IF b.err # NoErr THEN Failed(b.err)
    ELSE ResultSet(a.elems \o b.elems)
RECURSIVE JoinAll(_)
JoinAll(rs) == IF rs = <<>> THEN emptyResultSet ELSE Join(Head(rs), JoinAll(Tail(rs)))

\* the proper descendants of ref in pre-order, each selected one with its
\* results before those of its subtree; the children of an array are taken
\* from the last to the first if reversed, else all are in container order
RECURSIVE PreOrder(_, _, _, _)
PreOrder(ref, sel, rest, reversed) ==
    LET kids == ChildRefs(ref)
        n == Len(kids)
        kid(j) == IF reversed /\ ref.n.k = "array" THEN kids[n + 1 - j] ELSE kids[j]
        own(c) == IF c \in SelectedIn(ref, sel) THEN ResultsOf(c, rest) ELSE emptyResultSet
    IN  JoinAll([j \in 1..n |-> Join(own(kid(j)), PreOrder(kid(j), sel, rest, reversed))])

CallSelector == call.query.segments[1].selectors[1]
CallRest == Tail(call.query.segments)
IsReverseSlice(sel) == sel.t = "slice" /\ sel.step < 0
SameResult(r, expected) ==
    /\ r.err = expected.err
    /\ r.err = NoErr => r.elems = expected.elems

\* C27: a descendant segment with a single selector gives the results of
\* every proper descendant of the start node that the selector selects in
\* its parent, each exactly once, never the start node, in pre-order: a
\* selected node's results before those of its subtree, siblings in
\* container order, or from last to first in an array when the selector is
\* a slice with a negative step
C27_DescendantPreOrder ==
    call.op = "executeQuery"
        => SameResult(result, PreOrder(Ref(<<>>, input), CallSelector, CallRest,
                                       IsReverseSlice(CallSelector)))

\* C27 witness: $..[*] on an array of a map that holds a map, and a number:
\* the map, the map in it, that map's value, and then the number
C27_Witness ==
    /\ call = QueryCall(Query(rootNodeSymbol, <<Desc(wildcardSelector)>>))
    /\ input = ArrV(<<MapV(<<Entry("a", MapV(<<Entry("b", IntV(1))>>))>>), IntV(1)>>)
    /\ result.err = NoErr
    /\ [i \in 1..Len(result.elems) |-> result.elems[i].p]
            = <<(<<1>>), (<<1, 1>>), (<<1, 1, 1>>), (<<2>>)>>

\* C27 as claimed: the same, with siblings in container order for every
\* selector
C27_DescendantPreOrderAsClaimed ==
    call.op = "executeQuery"
        => SameResult(result, PreOrder(Ref(<<>>, input), CallSelector, CallRest, FALSE))

\* the full evaluation of the query of the call, on the same node
FullEvaluation ==
    executeQuery(call.query, Ref(<<>>, input), Ref(<<>>, input), FALSE, allowMissingKeys)

====
